---- MODULE Spec2Model ----
(***************************************************************************)
(* ShiftSync: the constraint engine, the assignment handlers, the swap /   *)
(* drop workflow and the expiry sweeps, over the ShiftAssignment,          *)
(* SwapRequest and ManagerOverride tables.                                 *)
(*                                                                         *)
(* Instants are minutes since a Monday 00:00 UTC.  A timezone is a fixed   *)
(* UTC offset in hours.                                                    *)
(***************************************************************************)
EXTENDS Integers, Sequences, FiniteSets, TLC

(***************************************************************************)
(* settings.SHIFTSYNC                                                      *)
(***************************************************************************)
MIN_REST_HOURS == 10
WEEKLY_HOURS_WARNING == 35
WEEKLY_HOURS_HARD_LIMIT == 40
DAILY_HOURS_WARNING == 8
DAILY_HOURS_HARD_LIMIT == 12
CONSECUTIVE_DAYS_WARNING == 6
CONSECUTIVE_DAYS_OVERRIDE == 7
MAX_PENDING_SWAP_REQUESTS == 3
DROP_REQUEST_EXPIRY_HOURS == 24
SWAP_ACCEPT_WINDOW_HOURS == 24

(***************************************************************************)
(* Bounds of the model                                                     *)
(***************************************************************************)
MaxAssignments == 2
MaxSwaps == 1

Hrs(h) == h * 60
Days(d) == d * 24 * 60

\* a NULL foreign key to a user, and a NULL integer column
NONE == "none"
NULL == -1

(***************************************************************************)
(* Read-only collaborators: users, skills, sites, certifications,          *)
(* availability windows.                                                   *)
(***************************************************************************)
Staff == {"alice", "bob"}
Managers == {"maria"}
Users == Staff \cup Managers

TzOffset ==
    [tz \in {"UTC", "America/New_York", "America/Los_Angeles"} |->
        CASE tz = "UTC" -> 0
          [] tz = "America/New_York" -> -5
          [] tz = "America/Los_Angeles" -> -8]

\* settings.TIME_ZONE; no scheduling URL carries a location_id, so the
\* TimezoneMiddleware leaves every request in UTC.
TIME_ZONE == "UTC"

Locations == {"downtown", "westside"}

LocationTimezone ==
    [l \in Locations |->
        IF l = "downtown" THEN "America/New_York" ELSE "America/Los_Angeles"]

ManagedLocations == [m \in Managers |-> Locations]

UserSkills ==
    [u \in Users |->
        CASE u = "alice" -> {"bartender", "server"}
          [] u = "bob" -> {"bartender"}
          [] OTHER -> {}]

\* LocationCertification rows: (user, location, is_active)
Certifications ==
    { [user |-> "alice", location |-> "downtown", is_active |-> TRUE],
      [user |-> "alice", location |-> "westside", is_active |-> TRUE],
      [user |-> "bob", location |-> "downtown", is_active |-> TRUE],
      [user |-> "bob", location |-> "westside", is_active |-> FALSE] }

\* StaffAvailability rows.  start_time / end_time are minutes after local
\* midnight, or NULL.
WeeklyAvail(u, d, st, en, tz) ==
    [user |-> u, recurrence |-> "weekly", day_of_week |-> d, specific_date |-> NULL,
     start_time |-> st, end_time |-> en, timezone |-> tz]

OneOffAvail(u, d, st, en, tz) ==
    [user |-> u, recurrence |-> "one_off", day_of_week |-> NULL, specific_date |-> d,
     start_time |-> st, end_time |-> en, timezone |-> tz]

Availability ==
    { WeeklyAvail("alice", d, 0, Hrs(24) - 1, "America/New_York") : d \in 0..6 }
    \cup { WeeklyAvail("bob", d, Hrs(8), Hrs(18), "America/New_York") : d \in {0, 6} }

(***************************************************************************)
(* Shift rows.  The catalogue fixes the columns that no handler of the     *)
(* model changes; existence and the publication flag are state.            *)
(***************************************************************************)
ShiftIds == {1, 2, 3}

\* one short shift on every day of the following week, Monday to Sunday
WeekShiftIds == 4..10

ShiftRow(i, loc, skill, st, en, hc) ==
    [id |-> i, location |-> loc, required_skill |-> skill, start_utc |-> st,
     end_utc |-> en, headcount_needed |-> hc, edit_cutoff_hours |-> 48]

\* 1: Mon 09:00-17:00 New York; 2: Mon 12:00-18:00 Los Angeles (overlaps 1);
\* 3: Tue 06:00-12:00 New York (13h after 1 ends, 9h after 2 ends);
\* 4..10: 10:00-14:00 New York on the seven days of the week after.
\* the shifts the constraint engine is exercised on, in four later weeks:
\* 11..19 around one Monday at both sites; 21..30 and 37..39 a week of five
\* 7.6h weekdays with Saturday and Monday candidates; 31..36 a week of five
\* 6h37 weekdays with a 6h55 Saturday; 41..44 four short shifts on one day;
\* 45 a Friday evening at westside and 46 a Sunday, in the week of 21..30;
\* 47 a Monday morning at downtown.
EngineShiftIds == (11..19) \cup (21..39) \cup (41..47)

At(day, h, m) == Days(day) + Hrs(h) + m

EngineShift(i) ==
    CASE i = 11 -> ShiftRow(i, "downtown", "bartender", At(28, 14, 0), At(28, 22, 0), 1)
      [] i = 12 -> ShiftRow(i, "downtown", "bartender", At(29, 8, 0), At(29, 12, 0), 1)
      [] i = 13 -> ShiftRow(i, "downtown", "bartender", At(29, 7, 59), At(29, 12, 0), 1)
      [] i = 14 -> ShiftRow(i, "downtown", "bartender", At(28, 22, 0), At(28, 23, 0), 1)
      [] i = 15 -> ShiftRow(i, "westside", "bartender", At(28, 16, 0), At(29, 0, 0), 1)
      [] i = 16 -> ShiftRow(i, "westside", "bartender", At(29, 1, 0), At(29, 6, 0), 1)
      [] i = 17 -> ShiftRow(i, "westside", "server", At(28, 14, 0), At(28, 22, 0), 1)
      [] i = 18 -> ShiftRow(i, "downtown", "bartender", At(28, 22, 0), At(29, 2, 1), 1)
      [] i = 19 -> ShiftRow(i, "downtown", "bartender", At(28, 22, 0), At(29, 2, 0), 1)
      [] i \in 21..25 -> ShiftRow(i, "downtown", "bartender", At(14 + i, 14, 0),
                                  At(14 + i, 21, 36), 1)
      [] i = 26 -> ShiftRow(i, "downtown", "bartender", At(40, 14, 0), At(40, 20, 0), 1)
      [] i = 27 -> ShiftRow(i, "downtown", "bartender", At(40, 14, 0), At(40, 16, 0), 1)
      [] i = 28 -> ShiftRow(i, "downtown", "bartender", At(40, 14, 0), At(40, 15, 59), 1)
      [] i = 29 -> ShiftRow(i, "downtown", "bartender", At(40, 14, 0), At(40, 18, 36), 1)
      [] i = 30 -> ShiftRow(i, "downtown", "bartender", At(40, 14, 0), At(40, 18, 35), 1)
      [] i \in 31..35 -> ShiftRow(i, "downtown", "bartender", At(11 + i, 14, 0),
                                  At(11 + i, 20, 37), 1)
      [] i = 36 -> ShiftRow(i, "downtown", "bartender", At(47, 14, 0), At(47, 20, 55), 1)
      [] i = 37 -> ShiftRow(i, "downtown", "bartender", At(35, 22, 0), At(35, 22, 24), 1)
      [] i = 38 -> ShiftRow(i, "downtown", "bartender", At(35, 22, 0), At(35, 22, 25), 1)
      [] i = 39 -> ShiftRow(i, "downtown", "bartender", At(40, 14, 0), At(40, 23, 0), 1)
      [] i = 41 -> ShiftRow(i, "downtown", "bartender", At(49, 14, 0), At(49, 16, 4), 1)
      [] i = 42 -> ShiftRow(i, "downtown", "bartender", At(49, 16, 4), At(49, 18, 8), 1)
      [] i = 43 -> ShiftRow(i, "downtown", "bartender", At(49, 18, 8), At(49, 20, 12), 1)
      [] i = 44 -> ShiftRow(i, "downtown", "bartender", At(49, 20, 12), At(49, 22, 0), 1)
      [] i = 45 -> ShiftRow(i, "westside", "bartender", At(40, 2, 0), At(40, 6, 0), 1)
      [] i = 46 -> ShiftRow(i, "downtown", "bartender", At(41, 14, 0), At(41, 18, 0), 1)
      [] i = 47 -> ShiftRow(i, "downtown", "bartender", At(28, 14, 0), At(28, 18, 0), 1)

Shift ==
    [i \in ShiftIds \cup WeekShiftIds \cup EngineShiftIds |->
        CASE i \in EngineShiftIds -> EngineShift(i)
          [] i = 1 -> ShiftRow(1, "downtown", "bartender", Days(7) + Hrs(14), Days(7) + Hrs(22), 2)
          [] i = 2 -> ShiftRow(2, "westside", "bartender", Days(7) + Hrs(20), Days(7) + Hrs(26), 1)
          [] i = 3 -> ShiftRow(3, "downtown", "bartender", Days(8) + Hrs(11), Days(8) + Hrs(17), 1)
          [] OTHER -> ShiftRow(i, "downtown", "bartender", Days(10 + i) + Hrs(15),
                               Days(10 + i) + Hrs(19), 1)]

(***************************************************************************)
(* Python floats.  A float below 2^7 is written as the sequence of the    *)
(* five base-2^15 digits of its multiple of 2^-60, most significant digit *)
(* first; every operation rounds its exact result to 53 significant bits, *)
(* ties to even, as IEEE 754 binary64 does.                                *)
(***************************************************************************)
Limb == 32768

FloatOfInt(h) == <<h, 0, 0, 0, 0>>

\* the number of significant bits of the digits q
FloatBits(q) ==
    LET nonzero == {i \in 1..5 : q[i] # 0}
    IN IF nonzero = {} THEN 0
       ELSE LET i == CHOOSE k \in nonzero : \A j \in nonzero : k <= j
            IN (5 - i) * 15 + (CHOOSE n \in 1..15 : q[i] < 2^n /\ q[i] >= 2^(n - 1))

\* round the digits q, with `sticky` telling that the exact value lies
\* above q, to 53 significant bits, ties to even
FloatRound(q, sticky) ==
    LET d == FloatBits(q) - 53
    IN IF d <= 0 THEN q
       ELSE LET p == 2^d
                low == q[5] % p
                odd == (q[5] \div p) % 2 = 1
                up == low > p \div 2 \/ (low = p \div 2 /\ (sticky \/ odd))
                t5 == q[5] - low + (IF up THEN p ELSE 0)
                t4 == q[4] + t5 \div Limb
                t3 == q[3] + t4 \div Limb
                t2 == q[2] + t3 \div Limb
                t1 == q[1] + t2 \div Limb
            IN <<t1, t2 % Limb, t3 % Limb, t4 % Limb, t5 % Limb>>

\* m / n for integers 0 < m < 2^15, 0 < n < 2^15: long division, then rounding
FloatDiv(m, n) ==
    LET r1 == m % n
        r2 == (r1 * Limb) % n
        r3 == (r2 * Limb) % n
        r4 == (r3 * Limb) % n
        r5 == (r4 * Limb) % n
    IN FloatRound(<<m \div n, (r1 * Limb) \div n, (r2 * Limb) \div n,
                    (r3 * Limb) \div n, (r4 * Limb) \div n>>, r5 # 0)

\* a + b
FloatAdd(a, b) ==
    LET t5 == a[5] + b[5]
        t4 == a[4] + b[4] + t5 \div Limb
        t3 == a[3] + b[3] + t4 \div Limb
        t2 == a[2] + b[2] + t3 \div Limb
        t1 == a[1] + b[1] + t2 \div Limb
    IN FloatRound(<<t1, t2 % Limb, t3 % Limb, t4 % Limb, t5 % Limb>>, FALSE)

\* a < b
FloatLess(a, b) == \E i \in 1..5 : a[i] < b[i] /\ \A j \in 1..(i - 1) : a[j] = b[j]

\* f"{a:.1f}": the number of tenths nearest to a, ties to even
FloatTenths(a) ==
    LET t5 == a[5] * 10
        t4 == a[4] * 10 + t5 \div Limb
        t3 == a[3] * 10 + t4 \div Limb
        t2 == a[2] * 10 + t3 \div Limb
        t1 == a[1] * 10 + t2 \div Limb
        frac == <<t2 % Limb, t3 % Limb, t4 % Limb, t5 % Limb, 0>>
        half == <<Limb \div 2, 0, 0, 0, 0>>
    IN IF FloatLess(half, frac) \/ (frac = half /\ t1 % 2 = 1) THEN t1 + 1 ELSE t1

\* Shift.duration_hours: delta.total_seconds() / 3600
duration_hours(shift) == FloatDiv(shift.end_utc - shift.start_utc, 60)

(***************************************************************************)
(* Time helpers                                                            *)
(***************************************************************************)
\* datetime.astimezone(tz).date(): the calendar day number of instant t in tz
LocalDate(t, tz) == (t + Hrs(TzOffset[tz])) \div Days(1)

\* date.weekday(): 0 = Monday
Weekday(d) == d % 7

\* dt.combine(date, time, tzinfo=tz).astimezone(utc)
CombineUtc(d, tm, tz) == Days(d) + tm - Hrs(TzOffset[tz])

(***************************************************************************)
(* ConstraintResult                                                        *)
(***************************************************************************)
Success == [ok |-> TRUE, severity |-> "ok", constraint_id |-> ""]
Warning(cid) == [ok |-> TRUE, severity |-> "warning", constraint_id |-> cid]
Block(cid) == [ok |-> FALSE, severity |-> "block", constraint_id |-> cid]
OverrideRequired(cid) == [ok |-> FALSE, severity |-> "override_required", constraint_id |-> cid]
\* a check that raises instead of returning a result
Raised(exc) == [ok |-> FALSE, severity |-> "raised", constraint_id |-> exc]

ActiveStatuses == {"assigned", "swap_pending"}
AssignmentStatuses == {"assigned", "swap_pending", "covered", "dropped"}

\* ShiftAssignment.objects.filter(user=user, status__in=[ASSIGNED, SWAP_PENDING])
ActiveOf(asgs, user) == {a \in asgs : a.user = user /\ a.status \in ActiveStatuses}

\* sum(a.shift.duration_hours for a in existing): the rows are added up from
\* 0 one after the other.  The queryset has no ordering; the rows are taken
\* by primary key (for the durations of the shifts above the sum is the same
\* in every order).
SumDurations(S) ==
    LET RECURSIVE Sum(_, _)
        Sum(T, acc) == IF T = {} THEN acc
                       ELSE LET a == CHOOSE x \in T : \A y \in T : x.id <= y.id
                            IN Sum(T \ {a}, FloatAdd(acc, duration_hours(Shift[a.shift])))
    IN Sum(S, FloatOfInt(0))

(***************************************************************************)
(* The eight checks                                                        *)
(***************************************************************************)
check_skill_match(user, shift) ==
    IF shift.required_skill \in UserSkills[user]
    THEN Success
    ELSE Block("skill_mismatch")

check_location_certification(certs, user, shift) ==
    IF \E c \in certs : c.user = user /\ c.location = shift.location /\ c.is_active
    THEN Success
    ELSE Block("location_certification")

is_unavailable_day(av) == av.start_time = NULL /\ av.end_time = NULL

\* the window read in the site's timezone instead of its own
_check_time_window_in_site_timezone(av, shift) ==
    LET local_tz == LocationTimezone[shift.location]
        shift_date_local == LocalDate(shift.start_utc, local_tz)
    IN IF av.start_time = NULL \/ av.end_time = NULL
       THEN Raised("TypeError")
       ELSE IF /\ CombineUtc(shift_date_local, av.start_time, local_tz) <= shift.start_utc
               /\ CombineUtc(shift_date_local, av.end_time, local_tz) >= shift.end_utc
            THEN Success
            ELSE Block("availability_window_mismatch")

_check_time_window_covers_shift(av, shift) ==
    LET shift_date_local == LocalDate(shift.start_utc, LocationTimezone[shift.location])
    IN IF av.start_time = NULL \/ av.end_time = NULL
       THEN Raised("TypeError")
       ELSE LET avail_start_utc == CombineUtc(shift_date_local, av.start_time, av.timezone)
                avail_end_utc == CombineUtc(shift_date_local, av.end_time, av.timezone)
            IN IF avail_start_utc <= shift.start_utc /\ avail_end_utc >= shift.end_utc
               THEN Success
               ELSE Block("availability_window_mismatch")

\* the lookup with the weekly entry first: a one-off entry is consulted only
\* when the weekday has no weekly entry
check_availability_weekly_first(avail, user, shift) ==
    LET local_tz == LocationTimezone[shift.location]
        shift_date == LocalDate(shift.start_utc, local_tz)
        one_offs == {v \in avail : v.user = user /\ v.recurrence = "one_off"
                                   /\ v.specific_date = shift_date}
        weeklies == {v \in avail : v.user = user /\ v.recurrence = "weekly"
                                   /\ v.day_of_week = Weekday(shift_date)}
        entry == IF weeklies # {} THEN CHOOSE v \in weeklies : TRUE
                 ELSE CHOOSE v \in one_offs : TRUE
    IN IF weeklies = {} /\ one_offs = {} THEN Block("availability_no_window")
       ELSE IF is_unavailable_day(entry) THEN Block("availability_one_off_unavailable")
       ELSE _check_time_window_covers_shift(entry, shift)

check_availability(avail, user, shift) ==
    LET local_tz == LocationTimezone[shift.location]
        shift_date == LocalDate(shift.start_utc, local_tz)
        shift_weekday == Weekday(shift_date)
        one_offs == {v \in avail : v.user = user /\ v.recurrence = "one_off"
                                   /\ v.specific_date = shift_date}
        weeklies == {v \in avail : v.user = user /\ v.recurrence = "weekly"
                                   /\ v.day_of_week = shift_weekday}
    IN IF one_offs # {}
       THEN LET one_off == CHOOSE v \in one_offs : TRUE
            IN IF is_unavailable_day(one_off)
               THEN Block("availability_one_off_unavailable")
               ELSE _check_time_window_covers_shift(one_off, shift)
       ELSE IF weeklies = {}
            THEN Block("availability_no_window")
            ELSE LET weekly == CHOOSE v \in weeklies : TRUE
                 IN IF is_unavailable_day(weekly)
                    \* `days` is bound only inside the `if not weekly` branch
                    THEN Raised("UnboundLocalError")
                    ELSE _check_time_window_covers_shift(weekly, shift)

\* the overlap test on closed intervals: a shift that touches the candidate
\* counts as a conflict
check_no_double_booking_closed(asgs, user, shift) ==
    LET conflicting == {a \in ActiveOf(asgs, user) :
                            /\ Shift[a.shift].start_utc <= shift.end_utc
                            /\ Shift[a.shift].end_utc >= shift.start_utc
                            /\ a.shift # shift.id}
    IN IF conflicting = {} THEN Success ELSE Block("double_booking")

check_no_double_booking(asgs, user, shift) ==
    LET conflicting == {a \in ActiveOf(asgs, user) :
                            /\ Shift[a.shift].start_utc < shift.end_utc
                            /\ Shift[a.shift].end_utc > shift.start_utc
                            /\ a.shift # shift.id}
    IN IF conflicting = {} THEN Success ELSE Block("double_booking")

\* the rest test with the bounds of the gap included: a gap of exactly
\* MIN_REST_HOURS is too short
check_minimum_rest_inclusive(asgs, user, shift) ==
    LET min_rest == Hrs(MIN_REST_HOURS)
        too_recent == {a \in ActiveOf(asgs, user) :
                            /\ Shift[a.shift].end_utc >= shift.start_utc - min_rest
                            /\ Shift[a.shift].end_utc <= shift.start_utc
                            /\ a.shift # shift.id}
        too_soon == {a \in ActiveOf(asgs, user) :
                            /\ Shift[a.shift].start_utc <= shift.end_utc + min_rest
                            /\ Shift[a.shift].start_utc >= shift.end_utc
                            /\ a.shift # shift.id}
    IN IF too_recent # {} THEN Block("minimum_rest_before")
       ELSE IF too_soon # {} THEN Block("minimum_rest_after")
       ELSE Success

check_minimum_rest(asgs, user, shift) ==
    LET min_rest == Hrs(MIN_REST_HOURS)
        too_recent == {a \in ActiveOf(asgs, user) :
                            /\ Shift[a.shift].end_utc > shift.start_utc - min_rest
                            /\ Shift[a.shift].end_utc <= shift.start_utc
                            /\ a.shift # shift.id}
        too_soon == {a \in ActiveOf(asgs, user) :
                            /\ Shift[a.shift].start_utc < shift.end_utc + min_rest
                            /\ Shift[a.shift].start_utc >= shift.end_utc
                            /\ a.shift # shift.id}
    IN IF too_recent # {} THEN Block("minimum_rest_before")
       ELSE IF too_soon # {} THEN Block("minimum_rest_after")
       ELSE Success

check_daily_hours(asgs, user, shift) ==
    LET shift_date == LocalDate(shift.start_utc, LocationTimezone[shift.location])
        \* shift__start_utc__date is taken in the connection's current timezone
        existing == {a \in ActiveOf(asgs, user) :
                        /\ LocalDate(Shift[a.shift].start_utc, TIME_ZONE) = shift_date
                        /\ a.shift # shift.id}
        existing_hours == SumDurations(existing)
        total_hours == FloatAdd(existing_hours, duration_hours(shift))
    IN IF FloatLess(FloatOfInt(DAILY_HOURS_HARD_LIMIT), total_hours)
       THEN Block("daily_hours_exceeded")
       ELSE IF FloatLess(FloatOfInt(DAILY_HOURS_WARNING), total_hours)
       THEN Warning("daily_hours_warning")
       ELSE Success

check_weekly_hours(asgs, user, shift) ==
    LET local_tz == LocationTimezone[shift.location]
        shift_date == LocalDate(shift.start_utc, local_tz)
        monday == shift_date - Weekday(shift_date)
        sunday == monday + 6
        week_start_utc == CombineUtc(monday, 0, local_tz)
        \* dt.max.time() is 23:59:59.999999; instants are whole minutes
        week_end_utc == CombineUtc(sunday, Hrs(24) - 1, local_tz)
        existing == {a \in ActiveOf(asgs, user) :
                        /\ Shift[a.shift].start_utc >= week_start_utc
                        /\ Shift[a.shift].start_utc <= week_end_utc
                        /\ a.shift # shift.id}
        current_hours == SumDurations(existing)
        projected_hours == FloatAdd(current_hours, duration_hours(shift))
    IN IF ~FloatLess(projected_hours, FloatOfInt(WEEKLY_HOURS_HARD_LIMIT))
       THEN Block("weekly_hours_exceeded")
       ELSE IF ~FloatLess(projected_hours, FloatOfInt(WEEKLY_HOURS_WARNING))
       THEN Warning("weekly_hours_warning")
       ELSE Success

\* the current total that the reason of check_weekly_hours reports,
\* f"{current_hours:.1f}", in tenths of an hour
weekly_hours_reason(asgs, user, shift) ==
    LET local_tz == LocationTimezone[shift.location]
        shift_date == LocalDate(shift.start_utc, local_tz)
        monday == shift_date - Weekday(shift_date)
        existing == {a \in ActiveOf(asgs, user) :
                        /\ Shift[a.shift].start_utc >= CombineUtc(monday, 0, local_tz)
                        /\ Shift[a.shift].start_utc <= CombineUtc(monday + 6, Hrs(24) - 1, local_tz)
                        /\ a.shift # shift.id}
    IN FloatTenths(SumDurations(existing))

\* the number of consecutive worked days before shift_date, walking back at
\* most 7 days
consecutive_before(asgs, user, shift_date) ==
    LET has_work(d) == \E a \in ActiveOf(asgs, user) :
                            LocalDate(Shift[a.shift].start_utc, TIME_ZONE) = d
        RECURSIVE Walk(_, _)
        Walk(d, n) == IF n = 7 \/ ~has_work(d) THEN n ELSE Walk(d - 1, n + 1)
    IN Walk(shift_date - 1, 0)

check_consecutive_days(asgs, user, shift) ==
    LET shift_date == LocalDate(shift.start_utc, LocationTimezone[shift.location])
        total_consecutive == consecutive_before(asgs, user, shift_date) + 1
    IN IF total_consecutive >= CONSECUTIVE_DAYS_OVERRIDE
       THEN OverrideRequired("consecutive_days_7")
       ELSE IF total_consecutive >= CONSECUTIVE_DAYS_WARNING
       THEN Warning("consecutive_days_6")
       ELSE Success

(***************************************************************************)
(* The pipeline                                                            *)
(***************************************************************************)
\* the StaffAvailability table, which check_availability queries
VARIABLE availability

\* CONSTRAINT_PIPELINE[i], run on (user, shift) against the rows asgs
RunCheck(i, asgs, user, shift) ==
    CASE i = 1 -> check_skill_match(user, shift)
      [] i = 2 -> check_location_certification(Certifications, user, shift)
      [] i = 3 -> check_availability(availability, user, shift)
      [] i = 4 -> check_no_double_booking(asgs, user, shift)
      [] i = 5 -> check_minimum_rest(asgs, user, shift)
      [] i = 6 -> check_daily_hours(asgs, user, shift)
      [] i = 7 -> check_weekly_hours(asgs, user, shift)
      [] i = 8 -> check_consecutive_days(asgs, user, shift)

PipelineLength == 8

\* ConstraintEngine.check: the loop over the pipeline.  A block or an
\* override_required ends the loop (so does an exception); a warning is
\* collected; at the end the first warning, if any, is returned.
RECURSIVE CheckFrom(_, _, _, _, _)
\* a loop that goes on after a block and returns the last blocking result
LoopBodyLastBlock(result, i, warnings, asgs, user, shift) ==
    IF result.severity = "ok"
    THEN CheckFrom(i + 1, warnings, asgs, user, shift)
    ELSE IF result.severity \in {"block", "override_required", "raised"}
    THEN LET later == CheckFrom(i + 1, warnings, asgs, user, shift)
         IN IF later.severity \in {"block", "override_required", "raised"}
            THEN later ELSE result
    ELSE CheckFrom(i + 1, Append(warnings, result), asgs, user, shift)

LoopBody(result, i, warnings, asgs, user, shift) ==
    IF result.severity = "ok"
    THEN CheckFrom(i + 1, warnings, asgs, user, shift)
    ELSE IF result.severity \in {"block", "override_required", "raised"}
    THEN result
    ELSE CheckFrom(i + 1, Append(warnings, result), asgs, user, shift)

CheckFrom(i, warnings, asgs, user, shift) ==
    IF i > PipelineLength
    THEN IF warnings # <<>> THEN warnings[1] ELSE Success
    ELSE LoopBody(RunCheck(i, asgs, user, shift), i, warnings, asgs, user, shift)

Evaluate(asgs, user, shift) == CheckFrom(1, <<>>, asgs, user, shift)

\* a check_all that stops where ConstraintEngine.check stops
check_all_short(asgs, user, shift) ==
    IF Evaluate(asgs, user, shift).severity = "ok"
    THEN <<>>
    ELSE <<Evaluate(asgs, user, shift)>>

\* ConstraintEngine.check_all: every check runs; the results whose severity is
\* not "ok" are appended in pipeline order.  A check that raises ends the call.
check_all(asgs, user, shift) ==
    LET results == [i \in 1..PipelineLength |-> RunCheck(i, asgs, user, shift)]
        raising == {i \in 1..PipelineLength : results[i].severity = "raised"}
    IN IF raising # {}
       THEN <<results[CHOOSE i \in raising : \A j \in raising : i <= j]>>
       ELSE SelectSeq(results, LAMBDA r : r.severity # "ok")

(***************************************************************************)
(* State                                                                   *)
(***************************************************************************)
VARIABLES
    now,              \* timezone.now()
    shifts,           \* ids of the Shift rows that exist
    published,        \* ids of the Shift rows with is_published
    assignments,      \* ShiftAssignment rows
    swaps,            \* SwapRequest rows
    overrides,        \* ManagerOverride rows
    assignment_seq,   \* last primary key given to a ShiftAssignment
    swap_seq,         \* last primary key given to a SwapRequest
    resp,             \* how the last handler ended: "ok", the message it refused
                      \* with, or the name of the handler that raised
    txn               \* the requests that are being served concurrently

vars == <<now, availability, shifts, published, assignments, swaps, overrides,
          assignment_seq, swap_seq, resp, txn>>

tables == <<availability, shifts, published, assignments, swaps, overrides, assignment_seq, swap_seq>>

\* the instants at which the model lets handlers run (hours)
Instants == <<0, 170>>

\* the request slots of the concurrent specification
Txns == {"t1", "t2"}

IdleTxn == [pc |-> "idle", op |-> "none", manager |-> NONE, user |-> NONE, shift |-> NULL,
            swap |-> NULL, assignment |-> NULL, reason |-> "", result |-> Success,
            locks |-> {}, outcome |-> "none", active_count |-> 0,
            request_type |-> "none", target |-> NONE, rows |-> <<>>,
            broadcasts |-> {}]

PendingStatuses == {"pending_acceptance", "pending_pickup", "pending_manager"}
ResolvedStatuses == {"approved", "rejected", "cancelled", "expired"}

\* SwapRequest.is_pending
is_pending(swap) == swap.status \in PendingStatuses

\* Shift.is_past_edit_cutoff
is_past_edit_cutoff(shift, t) == t >= shift.start_utc - Hrs(shift.edit_cutoff_hours)

\* Shift.assigned_count / Shift.is_fully_staffed
assigned_count(asgs, s) == Cardinality({a \in asgs : a.shift = s /\ a.status \in ActiveStatuses})
is_fully_staffed(asgs, s) == assigned_count(asgs, s) >= Shift[s].headcount_needed

\* the constraint with condition status = ASSIGNED only: a SWAP_PENDING row
\* does not count as active
unique_assigned_assignment_per_shift(asgs) ==
    \A a, b \in asgs :
        (a.id # b.id /\ a.shift = b.shift /\ a.user = b.user)
            => ~(a.status = "assigned" /\ b.status = "assigned")

\* ShiftAssignment.Meta.constraints: unique_active_assignment_per_shift
unique_active_assignment_per_shift(asgs) ==
    \A a, b \in asgs :
        (a.id # b.id /\ a.shift = b.shift /\ a.user = b.user)
            => ~(a.status \in ActiveStatuses /\ b.status \in ActiveStatuses)

\* the columns of a ShiftAssignment that some handler reads
NewAssignment(i, s, u) ==
    [id |-> i, shift |-> s, user |-> u, status |-> "assigned"]

\* assignment.status = st; assignment.save(update_fields=["status"])
SetAssignmentStatus(asgs, aid, st) ==
    {IF a.id = aid THEN [a EXCEPT !.status = st] ELSE a : a \in asgs}

SetSwapStatus(sws, sid, st) ==
    {IF r.id = sid THEN [r EXCEPT !.status = st] ELSE r : r \in sws}

\* the handler returns early with a message and writes nothing
Refuse(message) == resp' = message /\ UNCHANGED <<now, tables>>

\* the handler raises; ATOMIC_REQUESTS rolls the request's transaction back
Fail(handler) == resp' = handler /\ UNCHANGED <<now, tables>>

Init ==
    /\ now = Hrs(Instants[1])
    /\ availability = Availability
    /\ shifts = ShiftIds
    /\ published = {1, 2}
    /\ assignments = {}
    /\ swaps = {}
    /\ overrides = {}
    /\ assignment_seq = 0
    /\ swap_seq = 0
    /\ resp = "ok"
    /\ txn = [t \in Txns |-> IdleTxn]

(***************************************************************************)
(* AssignStaffView.post                                                    *)
(***************************************************************************)
\* request.POST.get("override_reason", "").strip(), on the reasons of the model
OverrideReasons == {"", " ", "documented"}

strip(text) == IF text = " " THEN "" ELSE text

\* what the handler does once ConstraintEngine.check has returned `result`:
\* "error" (it raises), "created", or the message it returns early with
AssignOutcome(asgs, u, s, result, override_reason) ==
    LET rows == {a \in asgs : a.shift = s /\ a.user = u}
    IN IF result.severity = "raised" THEN "error"
       ELSE IF ~result.ok /\ result.severity = "override_required" /\ strip(override_reason) = ""
       THEN "override_needed"
       ELSE IF ~result.ok /\ result.severity # "override_required"
       THEN "cannot_assign"
       \* get_or_create(shift=shift, user=staff_member, defaults=...)
       ELSE IF Cardinality(rows) > 1 THEN "error"
       ELSE IF Cardinality(rows) = 1 THEN "already_assigned"
       ELSE "created"

\* ManagerOverride.objects.create(...) when the result asked for an override
WithOverride(ovs, m, aid, result, override_reason) ==
    IF result.severity = "override_required"
    THEN ovs \cup {[manager |-> m, assignment |-> aid,
                    constraint_violated |-> result.constraint_id,
                    reason |-> strip(override_reason)]}
    ELSE ovs

AssignStaff(m, u, s, override_reason) ==
    /\ s \in shifts
    /\ Shift[s].location \in ManagedLocations[m]
    /\ \E result \in {Evaluate(assignments, u, Shift[s])} :
       \E outcome \in {AssignOutcome(assignments, u, s, result, override_reason)} :
       LET aid == assignment_seq + 1
       IN IF outcome = "error" THEN Fail("AssignStaffView")
          ELSE IF outcome # "created" THEN Refuse(outcome)
          ELSE /\ assignment_seq < MaxAssignments
               /\ assignments' = assignments \cup {NewAssignment(aid, s, u)}
               /\ assignment_seq' = aid
               /\ overrides' = WithOverride(overrides, m, aid, result, override_reason)
               /\ resp' = "ok"
               /\ UNCHANGED <<now, availability, shifts, published, swaps, swap_seq>>

(***************************************************************************)
(* ShiftAssignmentService.assign                                           *)
(***************************************************************************)
ServiceAssign(u, s, by) ==
    /\ s \in shifts
    /\ \E result \in {Evaluate(assignments, u, Shift[s])} :
       LET aid == assignment_seq + 1
           created == assignments \cup {NewAssignment(aid, s, u)}
       IN IF result.severity = "raised" THEN Fail("ShiftAssignmentService")
          ELSE IF ~result.ok THEN Refuse("conflict")
          ELSE IF ~unique_active_assignment_per_shift(created)
          THEN Fail("ShiftAssignmentService")
          ELSE /\ assignment_seq < MaxAssignments
               /\ assignments' = created
               /\ assignment_seq' = aid
               /\ resp' = "ok"
               /\ UNCHANGED <<now, availability, shifts, published, swaps, overrides, swap_seq>>

(***************************************************************************)
(* claim_shift                                                             *)
(***************************************************************************)
ClaimShift(u, s) ==
    /\ s \in shifts
    /\ LET aid == assignment_seq + 1
           created == assignments \cup {NewAssignment(aid, s, u)}
       IN IF is_fully_staffed(assignments, s) THEN Refuse("fully_staffed")
          ELSE IF ~unique_active_assignment_per_shift(created)
          THEN Fail("claim_shift")
          ELSE /\ assignment_seq < MaxAssignments
               /\ assignments' = created
               /\ assignment_seq' = aid
               /\ resp' = "ok"
               /\ UNCHANGED <<now, availability, shifts, published, swaps, overrides, swap_seq>>

(***************************************************************************)
(* InitiateSwapView.post                                                   *)
(***************************************************************************)
NewSwap(i, u, tgt, aid, ty, st, exp) ==
    [id |-> i, requester |-> u, target |-> tgt, claimed_by |-> NONE, assignment |-> aid,
     request_type |-> ty, status |-> st, created_at |-> now, expires_at |-> exp,
     target_accepted_at |-> NULL]

InitiateSwap(u, aid, request_type, target) ==
    /\ \E a \in assignments : a.id = aid /\ a.user = u /\ a.status = "assigned"
    /\ LET a == CHOOSE x \in assignments : x.id = aid
           active_count == Cardinality({r \in swaps : r.requester = u /\ is_pending(r)})
           sid == swap_seq + 1
           expires_at == Shift[a.shift].start_utc - Hrs(DROP_REQUEST_EXPIRY_HOURS)
       IN IF active_count >= MAX_PENDING_SWAP_REQUESTS
          THEN Refuse("too_many_pending")
          ELSE IF request_type = "swap" /\ target = NONE
          THEN Refuse("no_target")
          ELSE /\ swap_seq < MaxSwaps
               /\ swaps' = swaps \cup
                    {IF request_type = "swap"
                     THEN NewSwap(sid, u, target, aid, "swap", "pending_acceptance", NULL)
                     ELSE NewSwap(sid, u, NONE, aid, "drop", "pending_pickup", expires_at)}
               /\ swap_seq' = sid
               /\ assignments' = SetAssignmentStatus(assignments, aid, "swap_pending")
               /\ resp' = "ok"
               /\ UNCHANGED <<now, availability, shifts, published, overrides, assignment_seq>>

(***************************************************************************)
(* A request's writes reach the tables only if the unique constraint of    *)
(* ShiftAssignment accepts them; otherwise the IntegrityError rolls the    *)
(* request's transaction back (ATOMIC_REQUESTS).                           *)
(***************************************************************************)
\* the same writes with every save committed on its own: the save that hits
\* the constraint is lost, the request's other save stays
Autocommit(handler, asgs, sws) ==
    IF unique_active_assignment_per_shift(asgs)
    THEN /\ assignments' = asgs
         /\ swaps' = sws
         /\ resp' = "ok"
    ELSE /\ swaps' = sws
         /\ UNCHANGED assignments
         /\ resp' = handler

Commit(handler, asgs, sws) ==
    IF unique_active_assignment_per_shift(asgs)
    THEN /\ assignments' = asgs
         /\ swaps' = sws
         /\ resp' = "ok"
    ELSE /\ UNCHANGED <<assignments, swaps>>
         /\ resp' = handler

(***************************************************************************)
(* SwapListView.post: accept / decline / cancel                            *)
(***************************************************************************)
\* an accept that does not look at who is asking
AcceptByAnyone(u, sid) ==
    \E swap \in swaps :
        /\ swap.id = sid
        /\ IF swap.status # "pending_acceptance"
           THEN Refuse("cannot_accept")
           ELSE /\ swaps' = {IF r.id = sid
                               THEN [r EXCEPT !.status = "pending_manager",
                                              !.target_accepted_at = now]
                               ELSE r : r \in swaps}
                /\ resp' = "ok"
                /\ UNCHANGED <<now, availability, shifts, published, assignments, overrides,
                               assignment_seq, swap_seq>>

SwapAccept(u, sid) ==
    \E swap \in swaps :
        /\ swap.id = sid
        /\ IF swap.target # u \/ swap.status # "pending_acceptance"
           THEN Refuse("cannot_accept")
           ELSE /\ swaps' = {IF r.id = sid
                               THEN [r EXCEPT !.status = "pending_manager",
                                              !.target_accepted_at = now]
                               ELSE r : r \in swaps}
                /\ resp' = "ok"
                /\ UNCHANGED <<now, availability, shifts, published, assignments, overrides,
                               assignment_seq, swap_seq>>

SwapDecline(u, sid) ==
    \E swap \in swaps :
        /\ swap.id = sid
        /\ IF swap.target # u \/ swap.status # "pending_acceptance"
           THEN Refuse("cannot_decline")
           ELSE /\ Commit("SwapListView", SetAssignmentStatus(assignments, swap.assignment, "assigned"),
                          SetSwapStatus(swaps, sid, "rejected"))
                /\ UNCHANGED <<now, availability, shifts, published, overrides, assignment_seq, swap_seq>>

SwapCancel(u, sid) ==
    \E swap \in swaps :
        /\ swap.id = sid
        /\ IF swap.requester # u \/ ~is_pending(swap)
           THEN Refuse("cannot_cancel")
           ELSE /\ Commit("SwapListView", SetAssignmentStatus(assignments, swap.assignment, "assigned"),
                          SetSwapStatus(swaps, sid, "cancelled"))
                /\ UNCHANGED <<now, availability, shifts, published, overrides, assignment_seq, swap_seq>>

(***************************************************************************)
(* SwapReviewView.post: approve / reject                                   *)
(***************************************************************************)
Incoming(swap) == IF swap.request_type = "swap" THEN swap.target ELSE swap.claimed_by

\* an approval that trusts the check made when the request was submitted
SubmittedResult(asgs, swap) == Success

\* ConstraintEngine.check(user=incoming, shift=swap.assignment.shift); not
\* reached when there is no incoming worker
ReEvaluate(asgs, swap) ==
    IF Incoming(swap) = NONE THEN Success
    ELSE LET orig == CHOOSE a \in asgs : a.id = swap.assignment
         IN Evaluate(asgs, Incoming(swap), Shift[orig.shift])

SwapApprove(m, sid) ==
    \E swap \in swaps :
        /\ swap.id = sid
        /\ \E orig \in assignments, result \in {ReEvaluate(assignments, swap)} :
           LET incoming == Incoming(swap)
               aid == assignment_seq + 1
               written == SetAssignmentStatus(assignments, orig.id, "covered")
                            \cup {NewAssignment(aid, orig.shift, incoming)}
           IN /\ orig.id = swap.assignment
              /\ IF incoming = NONE THEN Refuse("no_incoming")
                 ELSE IF result.severity = "raised" THEN Fail("SwapReviewView")
                 ELSE IF ~result.ok /\ result.severity # "override_required"
                 THEN Refuse("cannot_approve")
                 ELSE /\ unique_active_assignment_per_shift(written)
                            => assignment_seq < MaxAssignments
                      /\ Commit("SwapReviewView", written, SetSwapStatus(swaps, sid, "approved"))
                      /\ assignment_seq' = IF resp' = "ok" THEN aid ELSE assignment_seq
                      /\ UNCHANGED <<now, availability, shifts, published, overrides, swap_seq>>

SwapReject(m, sid) ==
    \E swap \in swaps :
        /\ swap.id = sid
        /\ Commit("SwapReviewView", SetAssignmentStatus(assignments, swap.assignment, "assigned"),
                  SetSwapStatus(swaps, sid, "rejected"))
        /\ UNCHANGED <<now, availability, shifts, published, overrides, assignment_seq, swap_seq>>

(***************************************************************************)
(* tasks.expire_drop_requests / tasks.expire_swap_requests                 *)
(*                                                                         *)
(* The tasks run outside a request, in autocommit: every save is its own   *)
(* transaction, and an IntegrityError ends the task at the row it hit.     *)
(***************************************************************************)
\* the orders in which a queryset ordered by -created_at may yield the rows
QuerysetOrders(rows) ==
    {order \in [1..Cardinality(rows) -> rows] :
        /\ \A i, j \in DOMAIN order : i # j => order[i] # order[j]
        /\ \A i, j \in DOMAIN order : i < j => order[i].created_at >= order[j].created_at}

RECURSIVE ExpireRows(_, _, _, _)
ExpireRows(order, asgs, sws, count) ==
    IF order = <<>>
    THEN [asgs |-> asgs, sws |-> sws, count |-> count, failed |-> FALSE]
    ELSE LET swap == Head(order)
             sws1 == SetSwapStatus(sws, swap.id, "expired")
             asgs1 == SetAssignmentStatus(asgs, swap.assignment, "assigned")
         IN IF unique_active_assignment_per_shift(asgs1)
            THEN ExpireRows(Tail(order), asgs1, sws1, count + 1)
            ELSE [asgs |-> asgs, sws |-> sws1, count |-> count, failed |-> TRUE]

DropsToExpire(sws, t) ==
    {r \in sws : r.request_type = "drop" /\ r.status = "pending_pickup" /\ r.expires_at < t}

SwapsToExpire(sws, t) ==
    {r \in sws : r.request_type = "swap" /\ r.status = "pending_acceptance"
                 /\ r.created_at < t - Hrs(SWAP_ACCEPT_WINDOW_HOURS)}

Sweep(task, expired_qs) ==
    \E order \in QuerysetOrders(expired_qs) :
        LET out == ExpireRows(order, assignments, swaps, 0)
        IN /\ assignments' = out.asgs
           /\ swaps' = out.sws
           /\ resp' = IF out.failed THEN task ELSE "ok"
           /\ UNCHANGED <<now, availability, shifts, published, overrides, assignment_seq, swap_seq, txn>>

expire_drop_requests == Sweep("expire_drop_requests", DropsToExpire(swaps, now))

expire_swap_requests == Sweep("expire_swap_requests", SwapsToExpire(swaps, now))

\* The same tasks save by save, as they run next to the requests of the web
\* workers.  `for swap in expired_qs` evaluates the queryset once; each
\* save(update_fields=["status"]) is an UPDATE by primary key that tests
\* nothing and commits on its own.
SweepRead(t, task) ==
    /\ txn[t].pc = "idle"
    /\ \E order \in QuerysetOrders(IF task = "expire_drop_requests"
                                    THEN DropsToExpire(swaps, now)
                                    ELSE SwapsToExpire(swaps, now)) :
          txn' = [txn EXCEPT ![t] =
                    IF order = <<>> THEN IdleTxn
                    ELSE [IdleTxn EXCEPT !.pc = "swap_save", !.op = task, !.rows = order]]
    /\ UNCHANGED <<now, tables, resp>>

\* swap.status = EXPIRED; swap.save(update_fields=["status"])
SweepSaveSwap(t) ==
    /\ txn[t].pc = "swap_save"
    /\ swaps' = SetSwapStatus(swaps, Head(txn[t].rows).id, "expired")
    /\ txn' = [txn EXCEPT ![t].pc = "assignment_save"]
    /\ UNCHANGED <<now, availability, shifts, published, assignments, overrides,
                   assignment_seq, swap_seq, resp>>

\* swap.assignment.status = ASSIGNED; swap.assignment.save(update_fields=["status"])
SweepSaveAssignment(t) ==
    LET swap == Head(txn[t].rows)
        rest == Tail(txn[t].rows)
        written == SetAssignmentStatus(assignments, swap.assignment, "assigned")
    IN /\ txn[t].pc = "assignment_save"
       /\ IF unique_active_assignment_per_shift(written)
          THEN /\ assignments' = written
               /\ resp' = IF rest = <<>> THEN "ok" ELSE resp
               /\ txn' = [txn EXCEPT ![t] =
                            IF rest = <<>> THEN IdleTxn
                            ELSE [@ EXCEPT !.pc = "swap_save", !.rows = rest]]
          ELSE /\ UNCHANGED assignments
               /\ resp' = txn[t].op
               /\ txn' = [txn EXCEPT ![t] = IdleTxn]
       /\ UNCHANGED <<now, availability, shifts, published, swaps, overrides,
                      assignment_seq, swap_seq>>

(***************************************************************************)
(* TogglePublishView.post / DeleteShiftView.post                           *)
(***************************************************************************)
\* an unpublish that is locked only once the shift has started
TogglePublishUntilStart(m, s) ==
    /\ s \in shifts
    /\ Shift[s].location \in ManagedLocations[m]
    /\ IF s \in published /\ now >= Shift[s].start_utc
       THEN Refuse("past_cutoff")
       ELSE /\ published' = IF s \in published THEN published \ {s} ELSE published \cup {s}
            /\ resp' = "ok"
            /\ UNCHANGED <<now, availability, shifts, assignments, swaps, overrides,
                           assignment_seq, swap_seq>>

TogglePublish(m, s) ==
    /\ s \in shifts
    /\ Shift[s].location \in ManagedLocations[m]
    /\ IF s \in published /\ is_past_edit_cutoff(Shift[s], now)
       THEN Refuse("past_cutoff")
       ELSE /\ published' = IF s \in published THEN published \ {s} ELSE published \cup {s}
            /\ resp' = "ok"
            /\ UNCHANGED <<now, availability, shifts, assignments, swaps, overrides,
                           assignment_seq, swap_seq>>

\* PublishWeekView.post: publishes the manager's draft shifts that start, by
\* the UTC date, in the seven days from from_date
PublishWeek(m, from_date) ==
    /\ published' = published \cup
            {s \in shifts : /\ Shift[s].location \in ManagedLocations[m]
                            /\ LocalDate(Shift[s].start_utc, TIME_ZONE) >= from_date
                            /\ LocalDate(Shift[s].start_utc, TIME_ZONE) < from_date + 7}
    /\ resp' = "ok"
    /\ UNCHANGED <<now, availability, shifts, assignments, swaps, overrides, assignment_seq, swap_seq>>

\* shift.delete(): ShiftAssignment.shift, SwapRequest.assignment and
\* ManagerOverride.assignment are on_delete=CASCADE
DeleteShift(m, s) ==
    /\ s \in shifts
    /\ Shift[s].location \in ManagedLocations[m]
    /\ IF s \in published THEN Refuse("published")
       ELSE IF is_past_edit_cutoff(Shift[s], now) THEN Refuse("past_cutoff")
       ELSE LET gone == {a.id : a \in {x \in assignments : x.shift = s}}
            IN /\ shifts' = shifts \ {s}
               /\ assignments' = {a \in assignments : a.id \notin gone}
               /\ swaps' = {r \in swaps : r.assignment \notin gone}
               /\ overrides' = {o \in overrides : o.assignment \notin gone}
               /\ resp' = "ok"
               /\ UNCHANGED <<now, availability, published, assignment_seq, swap_seq>>

(***************************************************************************)
(* The clock                                                               *)
(***************************************************************************)
\* AvailabilityView.post: the signed-in user deletes, or creates or replaces
\* (update_or_create), their weekly entry for a weekday or their one-off entry
\* for a date; blank times are stored as NULL.
SaveAvailability(u, recurrence, key, start_time, end_time, tz, delete) ==
    LET qs == {v \in availability :
                  /\ v.user = u /\ v.recurrence = recurrence
                  /\ IF recurrence = "weekly" THEN v.day_of_week = key
                                              ELSE v.specific_date = key}
        row == IF recurrence = "weekly" THEN WeeklyAvail(u, key, start_time, end_time, tz)
                                        ELSE OneOffAvail(u, key, start_time, end_time, tz)
    IN /\ availability' = IF delete THEN availability \ qs
                                    ELSE (availability \ qs) \cup {row}
       /\ resp' = "ok"
       /\ UNCHANGED <<now, shifts, published, assignments, swaps, overrides,
                      assignment_seq, swap_seq>>

Tick ==
    /\ \E i \in 1..(Len(Instants) - 1) :
          /\ now = Hrs(Instants[i])
          /\ now' = Hrs(Instants[i + 1])
    /\ UNCHANGED <<tables, resp, txn>>

(***************************************************************************)
(* Every handler runs alone, from start to end                             *)
(***************************************************************************)
DoAssignStaff ==
    /\ \E m \in Managers, u \in Staff, s \in shifts, r \in OverrideReasons :
          AssignStaff(m, u, s, r)
    /\ UNCHANGED txn
DoServiceAssign ==
    /\ \E m \in Managers, u \in Staff, s \in shifts : ServiceAssign(u, s, m)
    /\ UNCHANGED txn
DoClaimShift ==
    /\ \E u \in Staff, s \in shifts : ClaimShift(u, s)
    /\ UNCHANGED txn
DoInitiateSwap ==
    /\ \E u \in Staff, a \in assignments :
          \/ \E tgt \in Staff \cup {NONE} : InitiateSwap(u, a.id, "swap", tgt)
          \/ InitiateSwap(u, a.id, "drop", NONE)
    /\ UNCHANGED txn
DoSwapAccept ==
    /\ \E u \in Staff, r \in swaps : SwapAccept(u, r.id)
    /\ UNCHANGED txn
DoSwapDecline ==
    /\ \E u \in Staff, r \in swaps : SwapDecline(u, r.id)
    /\ UNCHANGED txn
DoSwapCancel ==
    /\ \E u \in Staff, r \in swaps : SwapCancel(u, r.id)
    /\ UNCHANGED txn
DoSwapApprove ==
    /\ \E m \in Managers, r \in swaps : SwapApprove(m, r.id)
    /\ UNCHANGED txn
DoSwapReject ==
    /\ \E m \in Managers, r \in swaps : SwapReject(m, r.id)
    /\ UNCHANGED txn
DoTogglePublish ==
    /\ \E m \in Managers, s \in shifts : TogglePublish(m, s)
    /\ UNCHANGED txn
DoDeleteShift ==
    /\ \E m \in Managers, s \in shifts : DeleteShift(m, s)
    /\ UNCHANGED txn
DoPublishWeek ==
    /\ \E m \in Managers, from_date \in {0, 7} : PublishWeek(m, from_date)
    /\ UNCHANGED txn

Next ==
    \/ DoAssignStaff
    \/ DoServiceAssign
    \/ DoClaimShift
    \/ DoInitiateSwap
    \/ DoSwapAccept
    \/ DoSwapDecline
    \/ DoSwapCancel
    \/ DoSwapApprove
    \/ DoSwapReject
    \/ expire_drop_requests
    \/ expire_swap_requests
    \/ Tick

Spec == Init /\ [][Next]_vars

(***************************************************************************)
(* Two requests served at the same time.  Each runs in its own transaction *)
(* (ATOMIC_REQUESTS) at READ COMMITTED: a statement reads what is          *)
(* committed when it runs.  A request is cut where another one can come    *)
(* in between: after ConstraintEngine.check has returned, before the       *)
(* handler writes.                                                         *)
(***************************************************************************)
\* ShiftAssignment.objects.select_for_update().filter(user=user): the
\* statement builds a QuerySet and drops it; no query reaches the database,
\* so no row is locked
select_for_update_filter(user) == {}

\* a row lock another transaction holds makes the statement wait
LockFree(t, user) == \A o \in Txns \ {t} : user \notin txn[o].locks

\* AssignStaffView.post up to the return of ConstraintEngine.check
AssignCheck(t, m, u, s, override_reason) ==
    /\ txn[t].pc = "idle"
    /\ s \in shifts
    /\ Shift[s].location \in ManagedLocations[m]
    /\ LockFree(t, u)
    /\ \E result \in {Evaluate(assignments, u, Shift[s])} :
          txn' = [txn EXCEPT ![t] =
                    [pc |-> "checked", op |-> "assign", manager |-> m, user |-> u,
                     shift |-> s, swap |-> NULL, assignment |-> NULL,
                     reason |-> override_reason, result |-> result,
                     locks |-> select_for_update_filter(u), outcome |-> "none",
                     active_count |-> 0, request_type |-> "none", target |-> NONE, rows |-> <<>>,
            broadcasts |-> {}]]
    /\ UNCHANGED <<now, tables, resp>>

\* AssignStaffView.post from the return of the check to the commit
AssignWrite(t) ==
    LET x == txn[t]
        aid == assignment_seq + 1
    IN /\ x.pc = "checked"
       /\ x.op = "assign"
       /\ \E outcome \in {AssignOutcome(assignments, x.user, x.shift, x.result, x.reason)} :
             /\ IF outcome = "created"
                THEN /\ assignments' = assignments \cup {NewAssignment(aid, x.shift, x.user)}
                     /\ assignment_seq' = aid
                     /\ overrides' = WithOverride(overrides, x.manager, aid, x.result, x.reason)
                ELSE UNCHANGED <<assignments, assignment_seq, overrides>>
             /\ txn' = [txn EXCEPT ![t].pc = "done", ![t].outcome = outcome, ![t].locks = {}]
       /\ UNCHANGED <<now, availability, shifts, published, swaps, swap_seq, resp>>

\* SwapReviewView.post (approve) up to the return of ConstraintEngine.check
ApproveCheck(t, m, sid) ==
    \E swap \in swaps, orig \in assignments :
        /\ txn[t].pc = "idle"
        /\ swap.id = sid
        /\ orig.id = swap.assignment
        /\ Incoming(swap) # NONE
        /\ LockFree(t, Incoming(swap))
        /\ \E result \in {ReEvaluate(assignments, swap)} :
              txn' = [txn EXCEPT ![t] =
                        [pc |-> "checked", op |-> "approve", manager |-> m,
                         user |-> Incoming(swap), shift |-> orig.shift, swap |-> sid,
                         assignment |-> orig.id, reason |-> "", result |-> result,
                         locks |-> select_for_update_filter(Incoming(swap)),
                         outcome |-> "none", active_count |-> 0,
                         request_type |-> "none", target |-> NONE, rows |-> <<>>,
            broadcasts |-> {}]]
        /\ UNCHANGED <<now, tables, resp>>

\* SwapReviewView.post (approve) from the return of the check to the commit
ApproveWrite(t) ==
    LET x == txn[t]
        aid == assignment_seq + 1
        written == SetAssignmentStatus(assignments, x.assignment, "covered")
                     \cup {NewAssignment(aid, x.shift, x.user)}
        outcome == IF x.result.severity = "raised" THEN "error"
                   ELSE IF ~x.result.ok /\ x.result.severity # "override_required"
                   THEN "cannot_approve"
                   ELSE IF ~unique_active_assignment_per_shift(written) THEN "error"
                   ELSE "approved"
    IN /\ x.pc = "checked"
       /\ x.op = "approve"
       /\ IF outcome = "approved"
          THEN /\ assignments' = written
               /\ assignment_seq' = aid
               /\ swaps' = SetSwapStatus(swaps, x.swap, "approved")
          ELSE UNCHANGED <<assignments, assignment_seq, swaps>>
       /\ txn' = [txn EXCEPT ![t].pc = "done", ![t].outcome = outcome, ![t].locks = {}]
       /\ UNCHANGED <<now, availability, shifts, published, overrides, swap_seq, resp>>

DoAssignCheck ==
    \E t \in Txns, m \in Managers, u \in Staff, s \in shifts :
        AssignCheck(t, m, u, s, "documented")
DoAssignWrite == \E t \in Txns : AssignWrite(t)
DoApproveCheck ==
    \E t \in Txns, m \in Managers, r \in swaps : ApproveCheck(t, m, r.id)
DoApproveWrite == \E t \in Txns : ApproveWrite(t)

\* no request is in flight: the tables are prepared by requests served alone
Quiet == \A t \in Txns : txn[t].pc = "idle"

NextConc ==
    \/ Quiet /\ DoAssignStaff
    \/ Quiet /\ DoInitiateSwap
    \/ Quiet /\ DoSwapAccept
    \/ DoAssignCheck
    \/ DoAssignWrite
    \/ DoApproveCheck
    \/ DoApproveWrite

SpecConc == Init /\ [][NextConc]_vars

(***************************************************************************)
(* Shift management next to the handlers that create the rows a deleted    *)
(* shift takes with it                                                     *)
(***************************************************************************)
NextShifts ==
    \/ DoAssignStaff
    \/ DoInitiateSwap
    \/ DoTogglePublish
    \/ DoDeleteShift
    \/ DoPublishWeek
    \/ Tick

SpecShifts == Init /\ [][NextShifts]_vars

(***************************************************************************)
(* The seventh consecutive day.  alice already works the first six days of *)
(* the week (rows loaded with explicit primary keys, the sequences are     *)
(* untouched); the Sunday shift is open.                                   *)
(***************************************************************************)
SixDays == {NewAssignment(100 + s, s, "alice") : s \in 4..9}

InitOverride ==
    /\ now = Hrs(Instants[1])
    /\ availability = Availability
    /\ shifts = WeekShiftIds
    /\ published = WeekShiftIds
    /\ assignments = SixDays
    /\ swaps = {}
    /\ overrides = {}
    /\ assignment_seq = 0
    /\ swap_seq = 0
    /\ resp = "ok"
    /\ txn = [t \in Txns |-> IdleTxn]

NextOverride ==
    \/ DoAssignStaff
    \/ DoServiceAssign
    \/ DoInitiateSwap
    \/ DoSwapAccept
    \/ DoSwapApprove

SpecOverride == InitOverride /\ [][NextOverride]_vars

\* A worker who already holds six of the seven days of one week, assigned day
\* by day without ever reaching the seventh consecutive day.
SixOfSeven(missing) == {NewAssignment(100 + s, s, "alice") : s \in WeekShiftIds \ {missing}}

InitGap ==
    /\ now = Hrs(Instants[1])
    /\ availability = Availability
    /\ shifts = WeekShiftIds
    /\ published = WeekShiftIds
    /\ \E missing \in WeekShiftIds : assignments = SixOfSeven(missing)
    /\ swaps = {}
    /\ overrides = {}
    /\ assignment_seq = 0
    /\ swap_seq = 0
    /\ resp = "ok"
    /\ txn = [t \in Txns |-> IdleTxn]

NextGap ==
    \/ DoAssignStaff
    \/ DoServiceAssign

SpecGap == InitGap /\ [][NextGap]_vars

(***************************************************************************)
(* Two Create requests served at the same time.  alice works four days of  *)
(* the week and has already asked bob to take the first two.               *)
(***************************************************************************)
\* InitiateSwapView.post up to the return of the count of pending requests
CreateCheck(t, u, aid, request_type, target) ==
    /\ txn[t].pc = "idle"
    /\ \E a \in assignments : a.id = aid /\ a.user = u /\ a.status = "assigned"
    /\ LET active_count == Cardinality({r \in swaps : r.requester = u /\ is_pending(r)})
       IN txn' = [txn EXCEPT ![t] =
                    [IdleTxn EXCEPT !.pc = "checked", !.op = "create", !.user = u,
                                    !.assignment = aid, !.active_count = active_count,
                                    !.request_type = request_type, !.target = target]]
    /\ UNCHANGED <<now, tables, resp>>

\* InitiateSwapView.post from the test of the count to the commit
CreateWrite(t) ==
    LET x == txn[t]
        a == CHOOSE r \in assignments : r.id = x.assignment
        sid == swap_seq + 1
        expires_at == Shift[a.shift].start_utc - Hrs(DROP_REQUEST_EXPIRY_HOURS)
        outcome == IF x.active_count >= MAX_PENDING_SWAP_REQUESTS THEN "too_many_pending"
                   ELSE IF x.request_type = "swap" /\ x.target = NONE THEN "no_target"
                   ELSE "created"
    IN /\ x.pc = "checked"
       /\ x.op = "create"
       /\ IF outcome = "created"
          THEN /\ swaps' = swaps \cup
                    {IF x.request_type = "swap"
                     THEN NewSwap(sid, x.user, x.target, a.id, "swap", "pending_acceptance", NULL)
                     ELSE NewSwap(sid, x.user, NONE, a.id, "drop", "pending_pickup", expires_at)}
               /\ swap_seq' = sid
               /\ assignments' = SetAssignmentStatus(assignments, a.id, "swap_pending")
          ELSE UNCHANGED <<swaps, swap_seq, assignments>>
       /\ txn' = [txn EXCEPT ![t].pc = "done", ![t].outcome = outcome]
       /\ UNCHANGED <<now, availability, shifts, published, overrides, assignment_seq, resp>>

DoCreateCheck ==
    \E t \in Txns, u \in Staff, a \in assignments :
        \/ \E tgt \in Staff \cup {NONE} : CreateCheck(t, u, a.id, "swap", tgt)
        \/ CreateCheck(t, u, a.id, "drop", NONE)
DoCreateWrite == \E t \in Txns : CreateWrite(t)

FourDays ==
    {[NewAssignment(100 + s, s, "alice")
         EXCEPT !.status = IF s \in {4, 5} THEN "swap_pending" ELSE "assigned"] : s \in 4..7}

TwoPending ==
    {NewSwap(100 + s, "alice", "bob", 100 + s, "swap", "pending_acceptance", NULL) : s \in {4, 5}}

InitCreate ==
    /\ now = Hrs(Instants[1])
    /\ availability = Availability
    /\ shifts = WeekShiftIds
    /\ published = WeekShiftIds
    /\ assignments = FourDays
    /\ swaps = TwoPending
    /\ overrides = {}
    /\ assignment_seq = 0
    /\ swap_seq = 0
    /\ resp = "ok"
    /\ txn = [t \in Txns |-> IdleTxn]

NextCreate ==
    \/ Quiet /\ DoInitiateSwap
    \/ Quiet /\ DoSwapCancel
    \/ DoCreateCheck
    \/ DoCreateWrite

SpecCreate == InitCreate /\ [][NextCreate]_vars

(***************************************************************************)
(* A withdrawn request followed by a new one.  alice holds shift 1, asked  *)
(* bob to swap, withdrew that request and asked again: the first request   *)
(* is CANCELLED, the second waits for bob, the row is SWAP_PENDING.        *)
(***************************************************************************)
WithdrawnRow == {[NewAssignment(101, 1, "alice") EXCEPT !.status = "swap_pending"]}

WithdrawnSwaps ==
    {[NewSwap(101, "alice", "bob", 101, "swap", "pending_acceptance", NULL)
         EXCEPT !.status = "cancelled"],
     NewSwap(102, "alice", "bob", 101, "swap", "pending_acceptance", NULL)}

InitStale ==
    /\ now = Hrs(Instants[1])
    /\ availability = Availability
    /\ shifts = ShiftIds
    /\ published = {1, 2}
    /\ assignments = WithdrawnRow
    /\ swaps = WithdrawnSwaps
    /\ overrides = {}
    /\ assignment_seq = 0
    /\ swap_seq = 0
    /\ resp = "ok"
    /\ txn = [t \in Txns |-> IdleTxn]

NextStale ==
    \/ DoClaimShift
    \/ DoInitiateSwap
    \/ DoSwapDecline
    \/ DoSwapCancel
    \/ DoSwapApprove
    \/ expire_drop_requests
    \/ expire_swap_requests
    \/ Tick

SpecStale == InitStale /\ [][NextStale]_vars

(***************************************************************************)
(* The sweeps next to the requests.  alice holds shift 1 and has asked bob *)
(* to swap; bob has not answered.  Up to two task runs (celery beat starts *)
(* a run whether or not the previous one has returned) step through their  *)
(* saves while requests are served in between.                             *)
(***************************************************************************)
WaitingRow == {[NewAssignment(101, 1, "alice") EXCEPT !.status = "swap_pending"]}

WaitingSwaps ==
    {[NewSwap(101, "alice", "bob", 101, "swap", "pending_acceptance", NULL)
         EXCEPT !.created_at = Hrs(Instants[1])]}

InitSweep ==
    /\ now = Hrs(Instants[1])
    /\ availability = Availability
    /\ shifts = ShiftIds
    /\ published = {1, 2}
    /\ assignments = WaitingRow
    /\ swaps = WaitingSwaps
    /\ overrides = {}
    /\ assignment_seq = 0
    /\ swap_seq = 0
    /\ resp = "ok"
    /\ txn = [t \in Txns |-> IdleTxn]

DoSweepRead ==
    \E t \in Txns, task \in {"expire_drop_requests", "expire_swap_requests"} : SweepRead(t, task)
DoSweepSaveSwap == \E t \in Txns : SweepSaveSwap(t)
DoSweepSaveAssignment == \E t \in Txns : SweepSaveAssignment(t)

NextSweep ==
    \/ DoSweepRead
    \/ DoSweepSaveSwap
    \/ DoSweepSaveAssignment
    \/ DoInitiateSwap
    \/ DoSwapAccept
    \/ DoSwapCancel
    \/ DoSwapApprove
    \/ DoSwapReject
    \/ Tick

SpecSweep == InitSweep /\ [][NextSweep]_vars

(***************************************************************************)
(* The waiting request under the periodic schedule of the two tasks: the   *)
(* clock advances, and a task that has something to expire is run.         *)
(***************************************************************************)
NextLive ==
    \/ DoInitiateSwap
    \/ DoSwapAccept
    \/ DoSwapDecline
    \/ DoSwapCancel
    \/ DoSwapApprove
    \/ DoSwapReject
    \/ expire_drop_requests
    \/ expire_swap_requests
    \/ Tick

SpecLive ==
    /\ InitSweep
    /\ [][NextLive]_vars
    /\ WF_vars(expire_drop_requests)
    /\ WF_vars(expire_swap_requests)
    /\ WF_vars(Tick)

(***************************************************************************)
(* RoleRequiredMixin.dispatch in front of SwapReviewView.post.  dispatch   *)
(* calls super().dispatch() first, which runs the handler and returns its  *)
(* response, and tests request.user.role afterwards.  The PermissionDenied *)
(* it then raises leaves the view, so ATOMIC_REQUESTS rolls the request's  *)
(* database writes back; what the handler has sent through the channel     *)
(* layer has been sent.                                                    *)
(***************************************************************************)
\* User.role
UserRole == [u \in Staff \cup Managers |-> IF u \in Managers THEN "manager" ELSE "staff"]

\* ManagerRequiredMixin.required_roles
required_roles == {"admin", "manager"}

\* how SwapReviewView.post leaves: the branch it returns from, or "error"
ReviewOutcome(swap, action) ==
    IF action = "reject"
    THEN IF unique_active_assignment_per_shift(
                SetAssignmentStatus(assignments, swap.assignment, "assigned"))
         THEN "rejected" ELSE "error"
    ELSE LET incoming == Incoming(swap)
             orig == CHOOSE a \in assignments : a.id = swap.assignment
             result == ReEvaluate(assignments, swap)
             written == SetAssignmentStatus(assignments, orig.id, "covered")
                          \cup {NewAssignment(assignment_seq + 1, orig.shift, incoming)}
         IN IF incoming = NONE THEN "no_incoming"
            ELSE IF result.severity = "raised" THEN "error"
            ELSE IF ~result.ok /\ result.severity # "override_required" THEN "cannot_approve"
            ELSE IF ~unique_active_assignment_per_shift(written) THEN "error"
            ELSE "approved"

\* the groups the handler has called _ws_broadcast / _notify_user for
ReviewBroadcasts(swap, outcome) ==
    LET orig == CHOOSE a \in assignments : a.id = swap.assignment
    IN IF outcome = "approved"
       THEN {<<"schedule", Shift[orig.shift].location>>, <<"user", swap.requester>>,
             <<"user", Incoming(swap)>>}
       ELSE IF outcome = "rejected" THEN {<<"user", swap.requester>>}
       ELSE {}

dispatch(u, sid, action) ==
    \E swap \in swaps :
        /\ swap.id = sid
        /\ \E outcome \in {ReviewOutcome(swap, action)} :
              /\ txn' = [txn EXCEPT !["t1"] =
                            [IdleTxn EXCEPT !.pc = "done", !.op = action, !.user = u,
                                            !.swap = sid, !.outcome = outcome,
                                            !.broadcasts = ReviewBroadcasts(swap, outcome)]]
              /\ IF UserRole[u] \in required_roles
                 THEN IF action = "approve" THEN SwapApprove(u, sid) ELSE SwapReject(u, sid)
                 ELSE /\ resp' = "forbidden"
                      /\ UNCHANGED <<now, tables>>

Dodispatch ==
    \E u \in Staff \cup Managers, r \in swaps, action \in {"approve", "reject"} :
        dispatch(u, r.id, action)

NextRole ==
    \/ Dodispatch
    \/ DoInitiateSwap
    \/ DoSwapAccept
    \/ DoSwapCancel
    \/ Tick

SpecRole == InitSweep /\ [][NextRole]_vars

(***************************************************************************)
(* The constraint engine on its own.  alice holds some of the shifts of    *)
(* one of four weeks (every such table is reached by claims, which run no  *)
(* check); the rows of shifts 11 and 15 may be SWAP_PENDING or COVERED.    *)
(* The engine reads the ShiftAssignment table only.  Each step applies     *)
(* ConstraintEngine.check or ConstraintEngine.check_all to a worker and a  *)
(* shift and keeps what it returned.                                       *)
(***************************************************************************)
EngineWeeks == <<{11, 12, 13, 14, 15, 16}, (21..26) \cup {45}, 31..35, {41, 42, 43}>>

EngineStatusRows == {11, 15}

HeldRows(S, st) ==
    {[NewAssignment(100 + s, s, "alice") EXCEPT
            !.status = IF s \in DOMAIN st THEN st[s] ELSE "assigned"] : s \in S}

InitEngine ==
    /\ now = Hrs(Instants[1])
    /\ availability = Availability
    /\ shifts = EngineShiftIds
    /\ published = EngineShiftIds
    /\ \E w \in DOMAIN EngineWeeks : \E S \in SUBSET EngineWeeks[w] :
          \E st \in [S \cap EngineStatusRows -> {"assigned", "swap_pending", "covered"}] :
              assignments = HeldRows(S, st)
    /\ swaps = {}
    /\ overrides = {}
    /\ assignment_seq = 200
    /\ swap_seq = 0
    /\ resp = "ok"
    /\ txn = [t \in Txns |-> IdleTxn]

EngineCheck(u, s) ==
    /\ txn["t1"].pc = "idle"
    /\ txn' = [txn EXCEPT !["t1"] =
                    [IdleTxn EXCEPT !.pc = "done", !.op = "check", !.user = u, !.shift = s,
                                    !.result = Evaluate(assignments, u, Shift[s])]]
    /\ UNCHANGED <<now, tables, resp>>

EngineCheckAll(u, s) ==
    /\ txn["t1"].pc = "idle"
    /\ txn' = [txn EXCEPT !["t1"] =
                    [IdleTxn EXCEPT !.pc = "done", !.op = "check_all", !.user = u, !.shift = s,
                                    !.result = check_all(assignments, u, Shift[s])]]
    /\ UNCHANGED <<now, tables, resp>>

DoEngineCheck == \E u \in Staff, s \in EngineShiftIds : EngineCheck(u, s)

DoEngineCheckAll == \E u \in Staff, s \in EngineShiftIds : EngineCheckAll(u, s)

NextEngine ==
    \/ DoEngineCheck
    \/ DoEngineCheckAll

SpecEngine == InitEngine /\ [][NextEngine]_vars

(***************************************************************************)
(* The availability check against the entries a worker saves.  alice      *)
(* edits her weekly entry for Mondays and her one-off entry for the Monday *)
(* of shifts 11 and 47; the engine is applied as above.                    *)
(***************************************************************************)
InitAvail ==
    /\ now = Hrs(Instants[1])
    /\ availability = Availability
    /\ shifts = EngineShiftIds
    /\ published = EngineShiftIds
    /\ assignments = {}
    /\ swaps = {}
    /\ overrides = {}
    /\ assignment_seq = 0
    /\ swap_seq = 0
    /\ resp = "ok"
    /\ txn = [t \in Txns |-> IdleTxn]

DoSaveAvailability ==
    /\ \E recurrence \in {"weekly", "one_off"}, start_time \in {NULL, Hrs(9)},
          end_time \in {NULL, Hrs(17)},
          tz \in {"America/New_York", "America/Los_Angeles"}, delete \in BOOLEAN :
            SaveAvailability("alice", recurrence,
                             IF recurrence = "weekly" THEN 0
                             ELSE LocalDate(Shift[11].start_utc, "America/New_York"),
                             start_time, end_time, tz, delete)
    /\ UNCHANGED txn

NextAvail ==
    \/ DoSaveAvailability
    \/ DoEngineCheck
    \/ DoEngineCheckAll

SpecAvail == InitAvail /\ [][NextAvail]_vars

(***************************************************************************)
(* Properties                                                              *)
(***************************************************************************)

\* C1: no worker holds two active assignments (ASSIGNED or SWAP_PENDING)
\* whose shift intervals [start, end) overlap, at one site or at two.
C1_NoDoubleBooking ==
    \A a, b \in assignments :
        (/\ a.id # b.id
         /\ a.user = b.user
         /\ a.status \in ActiveStatuses
         /\ b.status \in ActiveStatuses)
            => ~(/\ Shift[a.shift].start_utc < Shift[b.shift].end_utc
                 /\ Shift[b.shift].start_utc < Shift[a.shift].end_utc)

\* C2: of two Assign requests for one worker on overlapping shifts that are
\* served at the same time, at most one creates an assignment.
C2_AssignsSerialized ==
    \A t, o \in Txns :
        (/\ t # o
         /\ txn[t].op = "assign"
         /\ txn[o].op = "assign"
         /\ txn[t].user = txn[o].user
         /\ txn[t].outcome = "created"
         /\ txn[o].outcome = "created"
         /\ txn[t].shift # txn[o].shift)
            => ~(/\ Shift[txn[t].shift].start_utc < Shift[txn[o].shift].end_utc
                 /\ Shift[txn[o].shift].start_utc < Shift[txn[t].shift].end_utc)

\* C3: an approval and an Assign (or another approval) that bind the same
\* incoming worker to overlapping shifts and are served at the same time
\* cannot both succeed.
C3_ApprovalSerialized ==
    \A t, o \in Txns :
        (/\ t # o
         /\ txn[t].op = "approve"
         /\ txn[t].outcome = "approved"
         /\ \/ txn[o].op = "assign" /\ txn[o].outcome = "created"
            \/ txn[o].op = "approve" /\ txn[o].outcome = "approved"
         /\ txn[t].user = txn[o].user
         /\ txn[t].shift # txn[o].shift)
            => ~(/\ Shift[txn[t].shift].start_utc < Shift[txn[o].shift].end_utc
                 /\ Shift[txn[o].shift].start_utc < Shift[txn[t].shift].end_utc)

\* C4: a SwapRequest's status changes only along the documented graph:
\* PENDING_ACCEPTANCE or PENDING_PICKUP to PENDING_MANAGER, PENDING_MANAGER
\* to APPROVED, any PENDING_* to REJECTED, CANCELLED or EXPIRED; a resolved
\* request never changes status again.
C4_SwapStatusGraph ==
    [][\A r \in swaps : \A q \in swaps' :
          (q.id = r.id /\ q.status # r.status)
             => \/ r.status \in {"pending_acceptance", "pending_pickup"}
                   /\ q.status = "pending_manager"
                \/ r.status = "pending_manager" /\ q.status = "approved"
                \/ r.status \in PendingStatuses
                   /\ q.status \in {"rejected", "cancelled", "expired"}]_vars

\* C5: a ShiftAssignment's status changes only ASSIGNED -> SWAP_PENDING,
\* SWAP_PENDING -> ASSIGNED and SWAP_PENDING -> COVERED: a COVERED row never
\* becomes active again and an ASSIGNED row is never set to COVERED.
C5_AssignmentStatusGraph ==
    [][\A a \in assignments : \A b \in assignments' :
          (b.id = a.id /\ b.status # a.status)
             => \/ a.status = "assigned" /\ b.status = "swap_pending"
                \/ a.status = "swap_pending" /\ b.status \in {"assigned", "covered"}]_vars

\* C6: in every reachable state each (shift, worker) pair has at most one
\* assignment in an active status.
C6_OneActivePerShiftAndWorker ==
    \A s \in DOMAIN Shift, u \in Users :
        Cardinality({a \in assignments :
                        a.shift = s /\ a.user = u /\ a.status \in ActiveStatuses}) <= 1

\* C6, its case: a manager approval was refused by the table's constraint
\* because the incoming worker already holds an active assignment on the
\* shift of the request.
C6_ApprovalHitConstraint ==
    /\ resp = "SwapReviewView"
    /\ \E r \in swaps, o \in assignments, a \in assignments :
          /\ r.status = "pending_manager"
          /\ o.id = r.assignment
          /\ o.status = "swap_pending"
          /\ a.id # o.id
          /\ a.shift = o.shift
          /\ a.user = Incoming(r)
          /\ a.status \in ActiveStatuses

\* C7: two active assignments of one worker whose shifts do not overlap are
\* at least MIN_REST_HOURS apart, unless one of them was created through a
\* manager override.
C7_MinimumRest ==
    \A a, b \in assignments :
        (/\ a.user = b.user
         /\ a.status \in ActiveStatuses
         /\ b.status \in ActiveStatuses
         /\ Shift[a.shift].end_utc <= Shift[b.shift].start_utc
         /\ ~\E o \in overrides : o.assignment \in {a.id, b.id})
            => Shift[b.shift].start_utc - Shift[a.shift].end_utc >= Hrs(MIN_REST_HOURS)

\* C8: a ShiftAssignment is created only when the pipeline, evaluated for
\* its worker and its shift against the state before the creation, returns
\* no block (and does not raise).
C8_CreatedOnlyAfterCheck ==
    [][\A b \in assignments' :
          (~\E a \in assignments : a.id = b.id)
             => Evaluate(assignments, b.user, Shift[b.shift]).severity
                    \notin {"block", "raised"}]_vars

\* C9: no operation removes a ShiftAssignment: every row of the table is
\* still in it after every step.
C9_AssignmentsNeverDeleted ==
    [][\A a \in assignments : \E b \in assignments' : b.id = a.id]_vars

\* C10: when Evaluate(w, s) returns ok with severity ok, the Assign(w, s)
\* that follows (the view's or the service's) is neither refused nor ends
\* in an error: it creates a new assignment of w to s in ASSIGNED status.
C10_AssignFollowsEvaluate ==
    [][\A m \in Managers, u \in Staff, s \in shifts, r \in OverrideReasons :
          (/\ Evaluate(assignments, u, Shift[s]) = Success
           /\ AssignStaff(m, u, s, r) \/ ServiceAssign(u, s, m))
             => \E b \in assignments' :
                   /\ b.shift = s /\ b.user = u /\ b.status = "assigned"
                   /\ ~\E a \in assignments : a.id = b.id]_vars

\* C11: when Evaluate returns override_required, an Assign with no reason or
\* a blank reason is refused with a response of its own (not the one of a
\* block) and writes nothing; an Assign with a reason creates exactly one
\* ASSIGNED assignment and exactly one ManagerOverride recording the
\* manager, that assignment, the rule id and the reason.
C11_OverrideRequiresReason ==
    [][\A m \in Managers, u \in Staff, s \in shifts, r \in OverrideReasons :
          (/\ Evaluate(assignments, u, Shift[s]).severity = "override_required"
           /\ AssignStaff(m, u, s, r))
             => IF strip(r) = ""
                THEN /\ resp' = "override_needed"
                     /\ assignments' = assignments
                     /\ overrides' = overrides
                ELSE \E b \in assignments' \ assignments, o \in overrides' \ overrides :
                        /\ assignments' = assignments \cup {b}
                        /\ overrides' = overrides \cup {o}
                        /\ b.shift = s /\ b.user = u /\ b.status = "assigned"
                        /\ o = [manager |-> m, assignment |-> b.id,
                                constraint_violated |->
                                    Evaluate(assignments, u, Shift[s]).constraint_id,
                                reason |-> r]]_vars

\* C12: an assignment is created with a ManagerOverride that records a
\* reason exactly when its creation went past an override_required result,
\* also when the creation is a manager approval of a swap or drop.
C12_OverrideRecorded ==
    [][\A b \in assignments' :
          (~\E a \in assignments : a.id = b.id)
             => (Evaluate(assignments, b.user, Shift[b.shift]).severity = "override_required"
                    <=> \E o \in overrides' : o.assignment = b.id /\ o.reason # "")]_vars

C14_SweepEffect ==
    [][\A eligible \in {DropsToExpire(swaps, now), SwapsToExpire(swaps, now)} :
          (\/ eligible = DropsToExpire(swaps, now) /\ expire_drop_requests
           \/ eligible = SwapsToExpire(swaps, now) /\ expire_swap_requests)
             => /\ swaps' = {IF r \in eligible THEN [r EXCEPT !.status = "expired"] ELSE r :
                                r \in swaps}
                /\ assignments' = {IF \E r \in eligible : r.assignment = a.id
                                      THEN [a EXCEPT !.status = "assigned"] ELSE a :
                                      a \in assignments}]_vars

\* C15: a manager approve is all or nothing.  Either the originating
\* assignment is COVERED, exactly one new ASSIGNED row on the same shift exists
\* for the incoming worker and the request is APPROVED, all after one step, or
\* no assignment and no request has changed.
C15_ApproveAtomic ==
    [][\A m \in Managers, r \in swaps :
          SwapApprove(m, r.id)
             => \/ assignments' = assignments /\ swaps' = swaps
                \/ \E orig \in assignments, b \in assignments' :
                      /\ orig.id = r.assignment
                      /\ \A a \in assignments : a.id # b.id
                      /\ b = [id |-> b.id, shift |-> orig.shift, user |-> Incoming(r),
                              status |-> "assigned"]
                      /\ assignments' = SetAssignmentStatus(assignments, orig.id, "covered")
                                           \cup {b}
                      /\ swaps' = SetSwapStatus(swaps, r.id, "approved")]_vars

\* an approval went through: request APPROVED, originating row COVERED, and the
\* row made last is the incoming worker's ASSIGNED row on the same shift
C15_Approved ==
    /\ resp = "ok"
    /\ \E r \in swaps, orig, b \in assignments :
          /\ r.status = "approved" /\ orig.id = r.assignment /\ orig.status = "covered"
          /\ Incoming(r) # r.requester
          /\ b.id = assignment_seq /\ b.id # orig.id
          /\ b.shift = orig.shift /\ b.user = Incoming(r) /\ b.status = "assigned"

\* C16: when the engine, run again at approval time for the incoming worker on
\* the current assignments, returns a hard block, the approval is aborted: the
\* requests and the assignments are unchanged.
C16_ApproveAbortsOnBlock ==
    [][\A m \in Managers, r \in swaps, orig \in assignments :
          (/\ orig.id = r.assignment
           /\ Incoming(r) # NONE
           /\ Evaluate(assignments, Incoming(r), Shift[orig.shift]).severity = "block"
           /\ SwapApprove(m, r.id))
             => /\ resp' = "cannot_approve"
                /\ assignments' = assignments
                /\ swaps' = swaps]_vars

\* an approval was just refused for a request whose incoming worker is blocked
C16_ApprovalRefused ==
    /\ resp = "cannot_approve"
    /\ \E r \in swaps, orig \in assignments :
          /\ orig.id = r.assignment
          /\ is_pending(r)
          /\ orig.status = "swap_pending"
          /\ Evaluate(assignments, Incoming(r), Shift[orig.shift]).severity = "block"

\* C17: a decline by the request's target on a SWAP request in
\* PENDING_ACCEPTANCE makes the request REJECTED and takes the originating
\* assignment from SWAP_PENDING to ASSIGNED, creating no assignment and no
\* ManagerOverride; any other decline is refused and changes nothing.
C17_DeclineEffect ==
    [][\A u \in Staff, r \in swaps, orig \in assignments :
          (orig.id = r.assignment /\ SwapDecline(u, r.id))
             => IF r.target = u /\ r.request_type = "swap" /\ r.status = "pending_acceptance"
                THEN /\ swaps' = SetSwapStatus(swaps, r.id, "rejected")
                     /\ orig.status = "swap_pending"
                     /\ assignments' = SetAssignmentStatus(assignments, orig.id, "assigned")
                     /\ overrides' = overrides
                ELSE /\ resp' = "cannot_decline"
                     /\ swaps' = swaps /\ assignments' = assignments
                     /\ overrides' = overrides]_vars

\* C18: an accept by the request's target on a SWAP request in
\* PENDING_ACCEPTANCE moves the request to PENDING_MANAGER, stamps the
\* acceptance time and leaves every assignment as it is (the originating one
\* stays SWAP_PENDING); any other accept, one on a DROP request included, is
\* refused and changes nothing.
C18_AcceptEffect ==
    [][\A u \in Staff, r \in swaps :
          SwapAccept(u, r.id)
             => IF r.target = u /\ r.request_type = "swap" /\ r.status = "pending_acceptance"
                THEN /\ swaps' = (swaps \ {r}) \cup
                                    {[r EXCEPT !.status = "pending_manager",
                                               !.target_accepted_at = now]}
                     /\ assignments' = assignments
                     /\ overrides' = overrides
                ELSE /\ resp' = "cannot_accept"
                     /\ swaps' = swaps /\ assignments' = assignments
                     /\ overrides' = overrides]_vars

\* a request was accepted by its target: it waits for a manager, carries the
\* acceptance time, and its originating assignment is still SWAP_PENDING
C18_Accepted ==
    /\ resp = "ok"
    /\ \E r \in swaps, orig \in assignments :
          /\ r.request_type = "swap" /\ r.status = "pending_manager"
          /\ r.target # r.requester
          /\ r.target_accepted_at = now
          /\ orig.id = r.assignment /\ orig.status = "swap_pending"

\* C19: a cancel by the requester of a request in PENDING_ACCEPTANCE,
\* PENDING_PICKUP or PENDING_MANAGER makes the request CANCELLED and the
\* originating assignment ASSIGNED; a cancel by anyone else or of a resolved
\* request is refused with an error and changes nothing.
C19_CancelEffect ==
    [][\A u \in Staff, r \in swaps :
          SwapCancel(u, r.id)
             => IF r.requester = u /\ r.status \in PendingStatuses
                THEN /\ swaps' = SetSwapStatus(swaps, r.id, "cancelled")
                     /\ assignments' = SetAssignmentStatus(assignments, r.assignment, "assigned")
                ELSE /\ resp' = "cannot_cancel"
                     /\ swaps' = swaps /\ assignments' = assignments]_vars

\* C20: no requester ever has more than MAX_PENDING_SWAP_REQUESTS requests in
\* a PENDING_* status, Create requests served at the same time included.
C20_MaxPendingRequests ==
    \A u \in Staff :
        Cardinality({r \in swaps : r.requester = u /\ is_pending(r)})
            <= MAX_PENDING_SWAP_REQUESTS

\* C21: an accepted claim by a qualified peer on a shift whose DROP request is
\* in PENDING_PICKUP moves that request to PENDING_MANAGER with the claimant
\* recorded on it, and binds the claimant to the shift only at the approval:
\* the claim itself creates no assignment.
C21_ClaimMovesDrop ==
    [][\A u \in Staff, r \in swaps, orig \in assignments :
          (/\ r.request_type = "drop"
           /\ r.status = "pending_pickup"
           /\ orig.id = r.assignment
           /\ u # r.requester
           /\ check_skill_match(u, Shift[orig.shift]).ok
           /\ check_location_certification(Certifications, u, Shift[orig.shift]).ok
           /\ ClaimShift(u, orig.shift)
           /\ resp' = "ok")
             => /\ swaps' = (swaps \ {r}) \cup
                               {[r EXCEPT !.status = "pending_manager", !.claimed_by = u]}
                /\ assignments' = assignments]_vars

\* C22: every SWAP request that is created names a target other than the
\* requester who holds the shift's required skill and an active certification
\* at the shift's site.
C22_SwapTargetQualified ==
    [][\A r \in swaps' \ swaps, orig \in assignments :
          (r.request_type = "swap" /\ orig.id = r.assignment)
             => /\ r.target \in Staff \ {r.requester}
                /\ check_skill_match(r.target, Shift[orig.shift]).ok
                /\ check_location_certification(Certifications, r.target,
                                                Shift[orig.shift]).ok]_vars

\* C23: no step deletes a published shift; no step unpublishes or deletes a
\* published shift whose edit cutoff has passed (now >= start -
\* edit_cutoff_hours); no step deletes a draft shift whose cutoff has passed;
\* and the clock never goes back, so a published shift past its cutoff stays
\* published and undeleted from then on.
C23_PublishedShiftsStay ==
    [][/\ now' >= now
       /\ \A s \in shifts :
             /\ s \in published => s \in shifts'
             /\ now >= Shift[s].start_utc - Hrs(Shift[s].edit_cutoff_hours)
                   => /\ s \in shifts'
                      /\ s \in published => s \in published']_vars

\* an unpublish of a published shift past its cutoff was just refused: every
\* shift that exists is published, so the refusal is not one of a delete
C23_UnpublishRefused ==
    /\ resp = "past_cutoff"
    /\ shifts # {}
    /\ shifts \subseteq published
    /\ \E s \in shifts : now >= Shift[s].start_utc - Hrs(Shift[s].edit_cutoff_hours)

\* C24: when one or more of checks 1-5 (skill match, site certification,
\* availability, double booking, minimum rest) fail, the engine returns the
\* block of the earliest failing one.
C24_FirstBlockReturned ==
    \A t \in Txns :
        txn[t].op = "check" =>
            LET failing == {i \in 1..5 : RunCheck(i, assignments, txn[t].user,
                                                  Shift[txn[t].shift]).severity # "ok"}
            IN failing # {} =>
                 \E i \in failing :
                    /\ \A j \in failing : i <= j
                    /\ txn[t].result = RunCheck(i, assignments, txn[t].user, Shift[txn[t].shift])
                    /\ txn[t].result.severity = "block"

\* C24, its case: bob, who has neither the skill nor the certification for
\* shift 17, was checked for it and got skill_mismatch.
C24_SkillBeforeCertification ==
    /\ txn["t1"].op = "check" /\ txn["t1"].user = "bob" /\ txn["t1"].shift = 17
    /\ ~check_skill_match("bob", Shift[17]).ok
    /\ ~check_location_certification(Certifications, "bob", Shift[17]).ok
    /\ txn["t1"].result = Block("skill_mismatch")

\* C25: when checks 1-5 all pass, the engine returns the first result that is
\* not ok among daily hours, weekly hours and consecutive days, in that order,
\* whatever the severities of the later ones, and success only when all three
\* are ok.
C25_FirstOfLastThree ==
    \A t \in Txns :
        txn[t].op = "check" =>
            LET R(i) == RunCheck(i, assignments, txn[t].user, Shift[txn[t].shift])
                notok == {i \in 6..8 : R(i).severity # "ok"}
            IN (\A i \in 1..5 : R(i).severity = "ok") =>
                 IF notok = {} THEN txn[t].result = Success
                 ELSE \E i \in notok : /\ \A j \in notok : i <= j
                                        /\ txn[t].result = R(i)

\* C26: check_all returns exactly the results that are not ok of all eight
\* checks, in pipeline order, and changes no table; the list is empty exactly
\* when check returns success for the same worker, shift and tables, and a
\* result that check returns, when it is not ok, is a member of the list.
C26_CheckAllComplete ==
    /\ [](\A t \in Txns :
            txn[t].op = "check_all" =>
                LET R(i) == RunCheck(i, assignments, txn[t].user, Shift[txn[t].shift])
                    notok == {i \in 1..PipelineLength : R(i).severity # "ok"}
                    single == Evaluate(assignments, txn[t].user, Shift[txn[t].shift])
                    list == txn[t].result
                IN /\ Len(list) = Cardinality(notok)
                   /\ \A i \in notok : list[Cardinality({j \in notok : j <= i})] = R(i)
                   /\ (list = <<>>) <=> (single = Success)
                   /\ single.severity # "ok" => \E k \in 1..Len(list) : list[k] = single)
    /\ [][(\E t \in Txns : txn[t].op # "check_all" /\ txn'[t].op = "check_all")
                => UNCHANGED <<now, tables, resp>>]_vars

\* C26, its case: check_all was run for bob on shift 17 and returned the
\* skill block followed by the certification block, where check returns the
\* first alone.
C26_TwoBlocksListed ==
    /\ txn["t1"].op = "check_all" /\ txn["t1"].user = "bob" /\ txn["t1"].shift = 17
    /\ txn["t1"].result = <<Block("skill_mismatch"), Block("location_certification")>>
    /\ Evaluate(assignments, "bob", Shift[17]) = Block("skill_mismatch")

\* C27: the double-booking check blocks, with rule id double_booking, if and
\* only if the worker has an ASSIGNED or SWAP_PENDING assignment on another
\* shift, at any site, that starts before the candidate ends and ends after
\* the candidate starts; a shift that only touches the candidate and a
\* COVERED or DROPPED assignment do not block.
C27_DoubleBookingIffOverlap ==
    \A t \in Txns :
        txn[t].op = "check_all" =>
            LET candidate == Shift[txn[t].shift]
                list == txn[t].result
            IN (\E k \in 1..Len(list) : list[k] = Block("double_booking"))
                 <=> \E a \in assignments :
                        /\ a.user = txn[t].user
                        /\ a.status \in {"assigned", "swap_pending"}
                        /\ a.shift # candidate.id
                        /\ Shift[a.shift].start_utc < candidate.end_utc
                        /\ Shift[a.shift].end_utc > candidate.start_utc

\* C27, its case: alice holds shift 11, which ends when shift 14 starts, and a
\* COVERED assignment on shift 15, which overlaps shift 14; the checks run for
\* alice on shift 14 reported no double booking.
C27_AdjacentAndCoveredPass ==
    /\ txn["t1"].op = "check_all" /\ txn["t1"].user = "alice" /\ txn["t1"].shift = 14
    /\ \E a \in assignments : a.user = "alice" /\ a.shift = 11 /\ a.status = "assigned"
    /\ \E a \in assignments : a.user = "alice" /\ a.shift = 15 /\ a.status = "covered"
    /\ Shift[11].end_utc = Shift[14].start_utc
    /\ Shift[15].start_utc < Shift[14].end_utc /\ Shift[15].end_utc > Shift[14].start_utc
    /\ \A k \in 1..Len(txn["t1"].result) : txn["t1"].result[k].constraint_id # "double_booking"

\* C28: the minimum-rest check blocks if and only if another active assignment
\* of the worker ends less than MIN_REST_HOURS before the candidate starts
\* (minimum_rest_before) or starts less than MIN_REST_HOURS after it ends
\* (minimum_rest_after); a gap of exactly MIN_REST_HOURS passes and a gap of
\* zero blocks.
C28_MinimumRestIffShortGap ==
    \A t \in Txns :
        txn[t].op = "check_all" =>
            LET candidate == Shift[txn[t].shift]
                list == txn[t].result
                others == {a \in assignments : /\ a.user = txn[t].user
                                               /\ a.status \in {"assigned", "swap_pending"}
                                               /\ a.shift # candidate.id}
                before == \E a \in others :
                             /\ candidate.start_utc - Shift[a.shift].end_utc >= 0
                             /\ candidate.start_utc - Shift[a.shift].end_utc < MIN_REST_HOURS * 60
                after == \E a \in others :
                             /\ Shift[a.shift].start_utc - candidate.end_utc >= 0
                             /\ Shift[a.shift].start_utc - candidate.end_utc < MIN_REST_HOURS * 60
                blocked(cid) == \E k \in 1..Len(list) : list[k] = Block(cid)
            IN /\ (blocked("minimum_rest_before") \/ blocked("minimum_rest_after"))
                    <=> (before \/ after)
               /\ blocked("minimum_rest_before") => before
               /\ blocked("minimum_rest_after") => after

\* C28, its case: alice holds shift 11 alone, which ends exactly
\* MIN_REST_HOURS before shift 12 starts; the checks run for alice on shift 12
\* reported no rest violation.
C28_ExactGapPasses ==
    /\ txn["t1"].op = "check_all" /\ txn["t1"].user = "alice" /\ txn["t1"].shift = 12
    /\ {a.shift : a \in ActiveOf(assignments, "alice")} = {11}
    /\ Shift[12].start_utc - Shift[11].end_utc = MIN_REST_HOURS * 60
    /\ \A k \in 1..Len(txn["t1"].result) :
          txn["t1"].result[k].constraint_id \notin {"minimum_rest_before", "minimum_rest_after"}

\* C29: with T the candidate shift's duration plus the durations of the
\* worker's other active assignments whose shifts start on the candidate's
\* site-local calendar day, the daily-hours check blocks with
\* daily_hours_exceeded when T > 12h, warns with daily_hours_warning when
\* 8h < T <= 12h and is ok when T <= 8h, for every site timezone.
C29_DailyThresholds ==
    \A t \in Txns :
        txn[t].op = "check_all" =>
            LET candidate == Shift[txn[t].shift]
                list == txn[t].result
                tz == LocationTimezone[candidate.location]
                others == {a \in assignments :
                              /\ a.user = txn[t].user
                              /\ a.status \in {"assigned", "swap_pending"}
                              /\ a.shift # candidate.id
                              /\ LocalDate(Shift[a.shift].start_utc, tz)
                                    = LocalDate(candidate.start_utc, tz)}
                RECURSIVE Minutes(_)
                Minutes(S) == IF S = {} THEN 0
                              ELSE LET a == CHOOSE x \in S : TRUE
                                   IN Shift[a.shift].end_utc - Shift[a.shift].start_utc
                                        + Minutes(S \ {a})
                T == candidate.end_utc - candidate.start_utc + Minutes(others)
                returned(r) == \E k \in 1..Len(list) : list[k] = r
            IN /\ returned(Block("daily_hours_exceeded")) <=> T > DAILY_HOURS_HARD_LIMIT * 60
               /\ returned(Warning("daily_hours_warning"))
                    <=> (T > DAILY_HOURS_WARNING * 60 /\ T <= DAILY_HOURS_HARD_LIMIT * 60)

\* C30: with C the total duration of the worker's other active assignments
\* whose shifts start in the candidate's site-local Monday-Sunday week and
\* P = C + the candidate's duration, the weekly-hours check blocks with
\* weekly_hours_exceeded when P >= 40h, warns with weekly_hours_warning when
\* 35h <= P < 40h and is ok when P < 35h; the block reports C, to the tenth of
\* an hour, as the current total.
C30_WeeklyThresholds ==
    \A t \in Txns :
        txn[t].op = "check_all" =>
            LET candidate == Shift[txn[t].shift]
                list == txn[t].result
                tz == LocationTimezone[candidate.location]
                day == LocalDate(candidate.start_utc, tz)
                monday == day - Weekday(day)
                others == {a \in assignments :
                              /\ a.user = txn[t].user
                              /\ a.status \in {"assigned", "swap_pending"}
                              /\ a.shift # candidate.id
                              /\ LocalDate(Shift[a.shift].start_utc, tz) \in monday..(monday + 6)}
                RECURSIVE Minutes(_)
                Minutes(S) == IF S = {} THEN 0
                              ELSE LET a == CHOOSE x \in S : TRUE
                                   IN Shift[a.shift].end_utc - Shift[a.shift].start_utc
                                        + Minutes(S \ {a})
                C == Minutes(others)
                P == C + candidate.end_utc - candidate.start_utc
                reported == weekly_hours_reason(assignments, txn[t].user, candidate)
                returned(r) == \E k \in 1..Len(list) : list[k] = r
            IN /\ returned(Block("weekly_hours_exceeded")) <=> P >= WEEKLY_HOURS_HARD_LIMIT * 60
               /\ returned(Warning("weekly_hours_warning"))
                    <=> (P >= WEEKLY_HOURS_WARNING * 60 /\ P < WEEKLY_HOURS_HARD_LIMIT * 60)
               /\ returned(Block("weekly_hours_exceeded"))
                    => (reported * 6 - C <= 3 /\ C - reported * 6 <= 3)

\* C31: with k the number of consecutive site-local calendar days right before
\* the candidate shift's day on each of which the worker has an active
\* assignment, the consecutive-days check is ok when k < 5, warns with
\* consecutive_days_6 when k = 5 and requires an override with
\* consecutive_days_7 when k >= 6.
C31_ConsecutiveDays ==
    \A t \in Txns :
        txn[t].op = "check_all" =>
            LET candidate == Shift[txn[t].shift]
                list == txn[t].result
                tz == LocationTimezone[candidate.location]
                day == LocalDate(candidate.start_utc, tz)
                worked(d) == \E a \in assignments :
                                /\ a.user = txn[t].user
                                /\ a.status \in {"assigned", "swap_pending"}
                                /\ LocalDate(Shift[a.shift].start_utc, tz) = d
                enough(n) == \A d \in (day - n)..(day - 1) : worked(d)
                returned(r) == \E k \in 1..Len(list) : list[k] = r
            IN /\ returned(OverrideRequired("consecutive_days_7")) <=> enough(6)
               /\ returned(Warning("consecutive_days_6")) <=> (enough(5) /\ ~enough(6))

\* C32: when the worker has a one-off availability entry for the shift's
\* site-local date, the availability result is the one that entry gives alone
\* (blocked as unavailable when both its times are empty, otherwise passed
\* exactly when its window contains the shift), whatever the weekly entry for
\* the weekday says.
C32_OneOffOverridesWeekly ==
    [][\A t \in Txns :
          (txn[t].pc = "idle" /\ txn'[t].op = "check_all") =>
              LET user == txn'[t].user
                  shift == Shift[txn'[t].shift]
                  list == txn'[t].result
                  date == LocalDate(shift.start_utc, LocationTimezone[shift.location])
                  one_offs == {v \in availability : /\ v.user = user
                                                    /\ v.recurrence = "one_off"
                                                    /\ v.specific_date = date}
                  alone == check_availability(one_offs, user, shift)
                  returned(r) == \E k \in 1..Len(list) : list[k] = r
                  passed == \A k \in 1..Len(list) :
                               list[k].constraint_id \notin
                                   {"availability_one_off_unavailable", "availability_no_window",
                                    "availability_weekly_unavailable",
                                    "availability_window_mismatch",
                                    "TypeError", "UnboundLocalError"}
              IN \A e \in one_offs :
                    /\ IF alone.severity = "ok" THEN passed ELSE returned(alone)
                    /\ (e.start_time = NULL /\ e.end_time = NULL)
                          => returned(Block("availability_one_off_unavailable"))
                    /\ (e.start_time # NULL /\ e.end_time # NULL)
                          => (passed <=>
                                /\ CombineUtc(date, e.start_time, e.timezone) <= shift.start_utc
                                /\ CombineUtc(date, e.end_time, e.timezone) >= shift.end_utc)]_vars

\* C32, its case: alice is unavailable on Mondays by her weekly entry and has
\* a one-off window for this Monday that contains shift 47; the checks run for
\* alice on shift 47 reported nothing.
C32_OneOffWindowWins ==
    /\ txn["t1"].op = "check_all" /\ txn["t1"].user = "alice" /\ txn["t1"].shift = 47
    /\ WeeklyAvail("alice", 0, NULL, NULL, "America/New_York") \in availability
    /\ OneOffAvail("alice", 28, Hrs(9), Hrs(17), "America/New_York") \in availability
    /\ txn["t1"].result = check_all(assignments, "alice", Shift[47])
    /\ txn["t1"].result = <<>>

\* C33: a window with both times set covers a shift if and only if, its clock
\* times read in the window's own timezone on the shift's date and converted
\* to UTC, it starts no later than the shift starts and ends no earlier than
\* the shift ends; otherwise the result is the block
\* availability_window_mismatch.
C33_WindowInOwnTimezone ==
    [][\A t \in Txns :
          (txn[t].pc = "idle" /\ txn'[t].op = "check_all") =>
              LET user == txn'[t].user
                  shift == Shift[txn'[t].shift]
                  list == txn'[t].result
                  date == LocalDate(shift.start_utc, LocationTimezone[shift.location])
                  one_offs == {v \in availability : /\ v.user = user
                                                    /\ v.recurrence = "one_off"
                                                    /\ v.specific_date = date}
                  weeklies == {v \in availability : /\ v.user = user
                                                    /\ v.recurrence = "weekly"
                                                    /\ v.day_of_week = date % 7}
                  consulted == IF one_offs # {} THEN one_offs ELSE weeklies
                  returned(r) == \E k \in 1..Len(list) : list[k] = r
              IN \A e \in consulted :
                    (e.start_time # NULL /\ e.end_time # NULL) =>
                        (returned(Block("availability_window_mismatch")) <=>
                            ~(/\ CombineUtc(date, e.start_time, e.timezone) <= shift.start_utc
                              /\ CombineUtc(date, e.end_time, e.timezone) >= shift.end_utc))]_vars

\* C33, its case: alice's Monday window is 09:00-17:00 America/Los_Angeles and
\* shift 47 runs 09:00-13:00 America/New_York on a Monday; the checks run for
\* alice on shift 47 reported availability_window_mismatch.
C33_LosAngelesWindowMisses ==
    /\ txn["t1"].op = "check_all" /\ txn["t1"].user = "alice" /\ txn["t1"].shift = 47
    /\ WeeklyAvail("alice", 0, Hrs(9), Hrs(17), "America/Los_Angeles") \in availability
    /\ \A v \in availability : v.recurrence # "one_off"
    /\ Shift[47].start_utc = CombineUtc(28, Hrs(9), "America/New_York")
    /\ Shift[47].end_utc = CombineUtc(28, Hrs(13), "America/New_York")
    /\ txn["t1"].result = <<Block("availability_window_mismatch")>>

\* C34: the availability check never raises: with no weekly entry for the
\* weekday it blocks with availability_no_window, with a weekly entry whose
\* times are both empty it blocks with availability_weekly_unavailable, with a
\* one-off entry whose times are both empty it blocks with
\* availability_one_off_unavailable, and an entry with one time set also
\* gives a result.
C34_AvailabilityNeverRaises ==
    [][\A t \in Txns :
          (txn[t].pc = "idle" /\ txn'[t].op = "check_all") =>
              LET user == txn'[t].user
                  shift == Shift[txn'[t].shift]
                  list == txn'[t].result
                  date == LocalDate(shift.start_utc, LocationTimezone[shift.location])
                  one_offs == {v \in availability : /\ v.user = user
                                                    /\ v.recurrence = "one_off"
                                                    /\ v.specific_date = date}
                  weeklies == {v \in availability : /\ v.user = user
                                                    /\ v.recurrence = "weekly"
                                                    /\ v.day_of_week = date % 7}
                  returned(r) == \E k \in 1..Len(list) : list[k] = r
              IN /\ \A k \in 1..Len(list) : list[k].severity # "raised"
                 /\ (one_offs = {} /\ weeklies = {})
                       => returned(Block("availability_no_window"))
                 /\ (one_offs = {} /\ \E w \in weeklies : w.start_time = NULL /\ w.end_time = NULL)
                       => returned(Block("availability_weekly_unavailable"))
                 /\ (\E e \in one_offs : e.start_time = NULL /\ e.end_time = NULL)
                       => returned(Block("availability_one_off_unavailable"))]_vars

\* C35: in every reachable state an assignment is SWAP_PENDING if and only if
\* exactly one SwapRequest in a pending status references it: no assignment
\* has two pending requests, and no pending request refers to an assignment
\* that is ASSIGNED or COVERED.
C35_SwapPendingIffOneRequest ==
    \A a \in assignments :
        a.status = "swap_pending"
            <=> Cardinality({r \in swaps : r.assignment = a.id /\ r.status \in PendingStatuses}) = 1

\* C36: in every reachable state no worker has active assignments on seven
\* consecutive site-local calendar days unless a ManagerOverride for the
\* consecutive-days rule is recorded for one of those assignments, whatever
\* the order in which the days were assigned.
C36_SevenDaysNeedOverride ==
    \A u \in Staff :
        \A first \in {LocalDate(Shift[a.shift].start_utc,
                                LocationTimezone[Shift[a.shift].location]) : a \in assignments} :
            LET run == {a \in assignments :
                          /\ a.user = u
                          /\ a.status \in {"assigned", "swap_pending"}
                          /\ LocalDate(Shift[a.shift].start_utc,
                                       LocationTimezone[Shift[a.shift].location])
                                \in first..(first + 6)}
                worked == {LocalDate(Shift[a.shift].start_utc,
                                     LocationTimezone[Shift[a.shift].location]) : a \in run}
            IN worked = first..(first + 6)
                 => \E o \in overrides : /\ o.constraint_violated = "consecutive_days_7"
                                          /\ \E a \in run : a.id = o.assignment

\* C37: whatever requests are served between the saves of one or two sweep
\* runs, a sweep writes EXPIRED only to a request that is PENDING_PICKUP or
\* PENDING_ACCEPTANCE at the moment of the write, and never resets to ASSIGNED
\* an assignment that is COVERED or is SWAP_PENDING for a different request
\* that is still pending.
C37_SweepWritesOnlyWaiting ==
    [][\A t \in Txns :
          /\ (txn[t].pc = "swap_save" /\ txn'[t].pc = "assignment_save")
                => \E r \in swaps :
                      /\ r.id = Head(txn[t].rows).id
                      /\ r.status \in {"pending_pickup", "pending_acceptance"}
          /\ (txn[t].pc = "assignment_save" /\ txn'[t].pc # "assignment_save")
                => \A a \in assignments :
                      (/\ a.id = Head(txn[t].rows).assignment
                       /\ [a EXCEPT !.status = "assigned"] \in assignments')
                          => /\ a.status # "covered"
                             /\ ~(/\ a.status = "swap_pending"
                                  /\ \E r \in swaps :
                                        /\ r.id # Head(txn[t].rows).id
                                        /\ r.assignment = a.id
                                        /\ is_pending(r))]_vars
\* C38: the number of active assignments (ASSIGNED or SWAP_PENDING) on a shift
\* never exceeds the shift's headcount_needed.
C38_HeadcountRespected ==
    \A s \in shifts : assigned_count(assignments, s) <= Shift[s].headcount_needed

\* C40: a request to a view behind a role mixin from a signed-in user whose
\* role is not among the required roles never executes the handler: it
\* changes no table and sends no broadcast.
C40_RoleCheckedBeforeHandler ==
    [][(/\ txn'["t1"] # txn["t1"]
        /\ txn'["t1"].op \in {"approve", "reject"}
        /\ txn'["t1"].pc = "done"
        /\ txn'["t1"].swap # NULL
        /\ UserRole[txn'["t1"].user] \notin required_roles)
          => /\ UNCHANGED tables
             /\ txn'["t1"].outcome = "none"
             /\ txn'["t1"].broadcasts = {}]_vars

\* the requests the model knows, and those whose expiry instant the clock of
\* the model reaches
SwapIds == {101} \cup (1..MaxSwaps)

Expirable(r) ==
    IF r.request_type = "drop"
    THEN r.expires_at < Hrs(Instants[Len(Instants)])
    ELSE r.created_at < Hrs(Instants[Len(Instants)]) - Hrs(SWAP_ACCEPT_WINDOW_HOURS)

\* C39: with the sweeps run fairly and the clock advancing, every request in
\* PENDING_PICKUP or PENDING_ACCEPTANCE eventually leaves that status, and the
\* originating assignment of a request that is never accepted or claimed
\* eventually is ASSIGNED again.
C39_WaitingRequestsResolve ==
    \A sid \in SwapIds :
        /\ (\E r \in swaps : /\ r.id = sid /\ Expirable(r)
                              /\ r.status \in {"pending_pickup", "pending_acceptance"})
              ~> ~(\E r \in swaps : /\ r.id = sid
                                     /\ r.status \in {"pending_pickup", "pending_acceptance"})
        /\ (\E r \in swaps : /\ r.id = sid /\ Expirable(r)
                              /\ r.status \in {"pending_pickup", "pending_acceptance"})
              ~> (\E r \in swaps :
                      /\ r.id = sid
                      /\ \/ r.target_accepted_at # NULL
                         \/ r.claimed_by # NONE
                         \/ \E a \in assignments : a.id = r.assignment /\ a.status = "assigned")

====
